---- MODULE Spec2Model ----
(***************************************************************************)
(* A model of the sonar / GPS telemetry pipeline of gps_tracker.           *)
(*                                                                         *)
(* Part I   the two packet reassemblers of the repository:                 *)
(*            - extractAndProcessPacket and its port.on('data') loop       *)
(*              (web-apps/sonar-server-all-signals.js), prog = "web";      *)
(*            - serialBufferHandler (gps_server.js), prog = "serial".      *)
(* Part II  the fusion stage of gps_server.js: processDataPacket and the   *)
(*          gpspipe stdout handler of startGpsPipe.                        *)
(* Part III the supervision of the gpspipe child and of the serial port    *)
(*          (startGpsPipe, startSonarPort) of gps_server.js and            *)
(*          gps_server_old.js.                                             *)
(*                                                                         *)
(* Bytes are real 8-bit values and the checksum is the real XOR; the       *)
(* packet is scaled down (NUM_SAMPLES samples, NUM_METADATA_BYTES metadata *)
(* bytes) so that whole byte streams can be enumerated.                    *)
(***************************************************************************)
EXTENDS Integers, Sequences, FiniteSets, TLC

VARIABLES
    prog,          \* which program reads the serial stream: "web" | "serial"
    stream,        \* the bytes the serial link will deliver (fixed by Init)
    sentFrames,    \* the sample arrays of the packets serialized into stream
    pos,           \* number of bytes of stream delivered so far
    buffer,        \* web: let buffer
    isReading,     \* web: let isReading
    pc,            \* web: position of the data callback: "idle" | "enter" | "body"
    frames,        \* web: the packets the data callback's loop has received
    comBuffer,     \* serial: let comBuffer
    handed,        \* serial: the calls processDataPacket(rawSamples) made
    now,                   \* the wall clock, in ms
    lastSmoothedDistance,  \* gps_server.js: let lastSmoothedDistance (null or cm)
    lastDbWriteTimestamp,  \* gps_server.js: let lastDbWriteTimestamp
    collectedSonarData,    \* gps_server.js: const collectedSonarData = []
    currentGpsData,        \* gps_server.js: let currentGpsData
    rawWsOut,              \* the 3-byte records sent on the raw WebSocket channel
    sonarPending,          \* sonar_readings inserts awaiting the database
    sonarAttempts,         \* frame timestamps of the sonar_readings inserts issued
    sonarRows,             \* rows the database has stored in sonar_readings
    gh,                    \* the invocations of the gpspipe stdout 'data' callback
    nextLineId,            \* arrival number of the next gpspipe line
    nFrames,               \* frames processed so far
    ioLog,                 \* the events emitted with io.emit, in order
    gpsPoints,             \* rows the database has stored in gps_points, in order
    server,                \* which server runs: "gps_server" | "gps_server_old"
    serverUp,              \* the node process is alive
    clock,                 \* ms since the server started
    timers,                \* the pending setTimeout callbacks: [fn, due]
    gpsRunning,            \* gpspipe children alive
    gpsSpawns,             \* the times of the spawn("gpspipe") calls
    gpsExits,              \* the times of the 'close' events of gpspipe children
    sonarPort,             \* the serial port: "open" | "errored" | "closed"
    tracker,               \* which program tracks the echoes: "none" | "persistence" |
                           \* "kalman" | "web" | "table"
    persistentSignals,     \* part_001: let persistentSignals (a Map, in insertion order)
    pointIndex,            \* part_001: let pointIndex
    issuedIds,             \* the ids given to new tracks, in order of creation
    quietFrames,           \* the number of frames without a peak that ended the run so far
    persistenceAtQuiet,    \* the largest persistence when the last frame with a peak ended
    primaryValue,          \* part_001: result.primaryValueForSmoothing of the last frame
    blindZoneEnd,          \* part_001: const startIndex of the last frame
    gpsOut,                \* the text gpspipe writes to its stdout (fixed by Init)
    gpsOutPos,             \* how much of gpsOut has reached the data callback
    parsedLines,           \* the values JSON.parse returned to the data callback, in order
    tracks,                \* part_002: tracker.tracks (a Map, in insertion order)
    nextSignalID,          \* part_002: tracker.nextSignalID
    noiseAverager,         \* part_002, web server, part_000: const noiseAverager
    packetcounter,         \* part_002, web server, part_000: let packetcounter
    kalmanOut,             \* part_002: what the last frame computed and plotted
    history,               \* web server: tracker.history (a Map, in insertion order)
    peakBuffer,            \* part_000: tracker.buffer
    consistentIndices,     \* the consistent indices of the last frame
    webOut,                \* web server: dataToSend of the last frame
    frameLog,              \* the frames fed to the consistency tracker so far
    extractIn,             \* the arguments of a call of extractSignalIndices
    extractOut,            \* what the call returned
    callIn,                \* the function and the arguments of a call of one of the
                           \* pure functions of the consoles
    callOut,               \* what that call returned
    lastOp                 \* the step taken last

reasmVars == <<prog, stream, sentFrames, pos, buffer, isReading, pc, frames,
               comBuffer, handed>>

fusionVars == <<now, lastSmoothedDistance, lastDbWriteTimestamp, collectedSonarData,
                currentGpsData, rawWsOut, sonarPending, sonarAttempts, sonarRows,
                gh, nextLineId, nFrames, ioLog, gpsPoints>>

linkVars == <<server, serverUp, clock, timers, gpsRunning, gpsSpawns, gpsExits,
              sonarPort>>

persistVars == <<persistentSignals, pointIndex, persistenceAtQuiet, primaryValue, blindZoneEnd>>

kalmanVars == <<tracks, nextSignalID, kalmanOut>>

consoleVars == <<noiseAverager, packetcounter>>

webVars == <<history, peakBuffer, consistentIndices, webOut, frameLog>>

extractVars == <<extractIn, extractOut>>

callVars == <<callIn, callOut>>

pipeVars == <<gpsOut, gpsOutPos, parsedLines>>

sigVars == <<tracker, issuedIds, quietFrames, persistVars, kalmanVars, consoleVars, webVars,
             extractVars, callVars, pipeVars>>

vars == <<reasmVars, fusionVars, linkVars, sigVars, lastOp>>

-----------------------------------------------------------------------------
(* Bounds of the model *)

\* samples per packet (the source has 1800)
NUM_SAMPLES == 1

\* metadata bytes per packet (the source has 6)
NUM_METADATA_BYTES == 1

\* longest run of valid packets fed to a reassembler
MaxPackets == 2

\* bytes of an arbitrary stream beyond one packet length
ExtraBytes == 3

\* the bytes between [0xAA] and frame B of the resync scenario (the spec has 100)
JunkLen == 2

-----------------------------------------------------------------------------
(* Packet layout *)

PACKET_HEADER == 170

PAYLOAD_LEN == NUM_METADATA_BYTES + 2 * NUM_SAMPLES

PACKET_LEN == 1 + PAYLOAD_LEN + 1

\* null / undefined
Null == [null |-> TRUE]

Min(S) == CHOOSE x \in S : \A y \in S : x <= y

Max(S) == CHOOSE x \in S : \A y \in S : x >= y

\* a ^ b on non-negative integers
RECURSIVE Xor(_, _)
Xor(a, b) ==
    IF a = 0 THEN b
    ELSE IF b = 0 THEN a
    ELSE (((a % 2) + (b % 2)) % 2) + 2 * Xor(a \div 2, b \div 2)

\* for (const byte of payload) calculatedChecksum ^= byte
RECURSIVE XorAll(_)
XorAll(bytes) ==
    IF bytes = <<>> THEN 0 ELSE Xor(bytes[1], XorAll(Tail(bytes)))

\* payload.readUInt16BE(off): off is the 0-based offset into bytes
ReadUInt16BELittle(bytes, off) == bytes[off + 1] + 256 * bytes[off + 2]

ReadUInt16BE(bytes, off) == 256 * bytes[off + 1] + bytes[off + 2]

\* values.push(payload.readUInt16BE(6 + i * 2)) for i in 0..NUM_SAMPLES-1
DecodeSamples(payload) ==
    [i \in 1..NUM_SAMPLES |->
        ReadUInt16BE(payload, NUM_METADATA_BYTES + (i - 1) * 2)]

-----------------------------------------------------------------------------
(* The serial streams under test *)

\* the byte values packets and arbitrary streams are made of
ByteVals == {0, PACKET_HEADER}

\* the byte values of the junk of the resync scenario
JunkVals == {0, 85, PACKET_HEADER}

\* the sample values of the packets under test
SampleVals == {0, PACKET_HEADER, 256 * PACKET_HEADER}

\* the frames under test: uniform metadata, any samples
TestFrames == [meta : ByteVals, values : [1..NUM_SAMPLES -> SampleVals]]

RECURSIVE SampleBytes(_)
SampleBytes(values) ==
    IF values = <<>> THEN <<>>
    ELSE <<values[1] \div 256, values[1] % 256>> \o SampleBytes(Tail(values))

\* [0xAA][metadata][samples, big-endian u16][XOR of the payload]
Serialize(f) ==
    LET payload == [i \in 1..NUM_METADATA_BYTES |-> f.meta] \o SampleBytes(f.values)
    IN  <<PACKET_HEADER>> \o payload \o <<XorAll(payload)>>

RECURSIVE SerializeAll(_)
SerializeAll(fs) ==
    IF fs = <<>> THEN <<>> ELSE Serialize(fs[1]) \o SerializeAll(Tail(fs))

ValuesOf(fs) == [i \in 1..Len(fs) |-> fs[i].values]

FrameRuns == UNION {[1..n -> TestFrames] : n \in 1..MaxPackets}

\* the XOR over bytes 1..PACKET_LEN-2 of a packet equals its last byte
XorOk(pkt) ==
    XorAll(SubSeq(pkt, 2, PACKET_LEN - 1)) = pkt[PACKET_LEN]

-----------------------------------------------------------------------------
(* web-apps/sonar-server-all-signals.js: extractAndProcessPacket *)

\* for (let i = 0; i <= buffer.length - PACKET_LEN; i++) if (buffer[i] === PACKET_HEADER)
FindHeader(buf) ==
    LET C == {i \in 0..(Len(buf) - PACKET_LEN) : buf[i + 1] = PACKET_HEADER}
    IN  IF C = {} THEN -1 ELSE Min(C)

\* a reassembler that throws the whole candidate window away on a mismatch
MismatchRestWindow(buf, h) == SubSeq(buf, h + PACKET_LEN + 1, Len(buf))

\* buffer = buffer.subarray(headerIndex + 1)
MismatchRest(buf, h) == SubSeq(buf, h + 2, Len(buf))

\* a reassembler that steps over the header byte alone after a valid packet
PacketRestHeaderOnly(buf, h) == SubSeq(buf, h + 2, Len(buf))

\* buffer = buffer.subarray(headerIndex + PACKET_LEN)
PacketRest(buf, h) == SubSeq(buf, h + PACKET_LEN + 1, Len(buf))

\* one pass through the body of extractAndProcessPacket, after the guard
ExtractOnce(buf) ==
    LET h == FindHeader(buf) IN
    IF h = -1 \/ Len(buf) < h + PACKET_LEN
    THEN [kind |-> "null", buf |-> buf, values |-> <<>>]
    ELSE LET potentialPacket == SubSeq(buf, h + 1, h + PACKET_LEN)
             payload == SubSeq(potentialPacket, 2, 1 + PAYLOAD_LEN)
             receivedChecksum == potentialPacket[PACKET_LEN]
             calculatedChecksum == XorAll(payload)
         IN  IF calculatedChecksum # receivedChecksum
             THEN [kind |-> "mismatch", buf |-> MismatchRest(buf, h), values |-> <<>>]
             ELSE [kind |-> "packet", buf |-> PacketRest(buf, h),
                   values |-> DecodeSamples(payload)]

\* the whole call, the recursive retries included
RECURSIVE ExtractRec(_)
ExtractRec(buf) ==
    LET r == ExtractOnce(buf) IN
    IF r.kind = "mismatch" THEN ExtractRec(r.buf) ELSE r

\* a guard that never rejects
GuardNever == FALSE

\* if (isReading) return null;
GuardRejects == isReading

\* port.on('data'): buffer = Buffer.concat([buffer, data]); then the while loop starts
PortData(n) ==
    /\ prog = "web"
    /\ pc = "idle"
    /\ pos + n <= Len(stream)
    /\ buffer' = buffer \o SubSeq(stream, pos + 1, pos + n)
    /\ pos' = pos + n
    /\ pc' = "enter"
    /\ lastOp' = "data"
    /\ UNCHANGED <<prog, stream, sentFrames, isReading, frames, comBuffer, handed>>
    /\ UNCHANGED fusionVars
    /\ UNCHANGED linkVars
    /\ UNCHANGED sigVars

\* the loop calls extractAndProcessPacket (or the function calls itself): the guard
ExtractEnter ==
    /\ pc = "enter"
    /\ IF GuardRejects
       THEN /\ pc' = "idle"
            /\ lastOp' = "locked_out"
            /\ UNCHANGED isReading
       ELSE /\ isReading' = TRUE
            /\ pc' = "body"
            /\ lastOp' = "enter"
    /\ UNCHANGED <<prog, stream, sentFrames, pos, buffer, frames, comBuffer, handed>>
    /\ UNCHANGED fusionVars
    /\ UNCHANGED linkVars
    /\ UNCHANGED sigVars

\* a function that returns from a checksum mismatch with the guard still set
GuardKeptOnMismatch(kind) == kind = "mismatch"

\* isReading = false, on each path out of the body
GuardOnExit(kind) == FALSE

\* the body of the call: null ends the loop, a mismatch retries, a packet is processed
ExtractBody ==
    /\ pc = "body"
    /\ LET r == ExtractOnce(buffer) IN
        /\ buffer' = r.buf
        /\ isReading' = GuardOnExit(r.kind)
        /\ lastOp' = r.kind
        /\ pc' = IF r.kind = "null" THEN "idle" ELSE "enter"
        /\ frames' = IF r.kind = "packet" THEN Append(frames, r.values) ELSE frames
    /\ UNCHANGED <<prog, stream, sentFrames, pos, comBuffer, handed>>
    /\ UNCHANGED fusionVars
    /\ UNCHANGED linkVars
    /\ UNCHANGED sigVars

\* a statement of the try block throws: catch (e), isReading = false, and null
\* (no packet) is returned, which ends the loop
ExtractException ==
    /\ prog = "web"
    /\ pc = "body"
    /\ isReading' = GuardOnExit("exception")
    /\ pc' = "idle"
    /\ lastOp' = "exception"
    /\ UNCHANGED <<prog, stream, sentFrames, pos, buffer, frames, comBuffer, handed>>
    /\ UNCHANGED fusionVars
    /\ UNCHANGED linkVars
    /\ UNCHANGED sigVars

\* an invocation that begins while the invocation above is in progress; it runs
\* to completion before the first one resumes
ReentrantCall ==
    /\ pc = "body"
    /\ IF GuardRejects
       THEN /\ lastOp' = "reentry_null"
            /\ UNCHANGED <<buffer, isReading>>
       ELSE LET r == ExtractRec(buffer) IN
            /\ buffer' = r.buf
            /\ isReading' = FALSE
            /\ lastOp' = "reentry_ran"
    /\ UNCHANGED <<prog, stream, sentFrames, pos, pc, frames, comBuffer, handed>>
    /\ UNCHANGED fusionVars
    /\ UNCHANGED linkVars
    /\ UNCHANGED sigVars

-----------------------------------------------------------------------------
(* gps_server.js: serialBufferHandler *)

\* comBuffer.indexOf(HEADER_BYTE)
IndexOfHeader(buf) ==
    LET C == {i \in 0..(Len(buf) - 1) : buf[i + 1] = PACKET_HEADER}
    IN  IF C = {} THEN -1 ELSE Min(C)

\* while (comBuffer.length >= PACKET_SIZE) { ... }: out collects the packets whose
\* samples are passed to processDataPacket
RECURSIVE SerialLoop(_, _)
SerialLoop(buf, out) ==
    IF Len(buf) < PACKET_LEN THEN [buf |-> buf, out |-> out]
    ELSE LET headerIndex == IndexOfHeader(buf) IN
         IF headerIndex = -1 THEN [buf |-> <<>>, out |-> out]
         ELSE LET b2 == IF headerIndex > 0
                        THEN SubSeq(buf, headerIndex + 1, Len(buf)) ELSE buf
              IN  IF headerIndex > 0 /\ Len(b2) < PACKET_LEN
                  THEN [buf |-> b2, out |-> out]
                  ELSE LET packet == SubSeq(b2, 1, PACKET_LEN)
                           payload == SubSeq(packet, 2, PACKET_LEN - 1)
                           rawSamples == DecodeSamples(payload)
                       IN  SerialLoop(SubSeq(b2, PACKET_LEN + 1, Len(b2)),
                                      Append(out, [rawSamples |-> rawSamples,
                                                   packet |-> packet]))

\* port.on('data', serialBufferHandler)
SerialData(n) ==
    /\ prog = "serial"
    /\ pos + n <= Len(stream)
    /\ LET r == SerialLoop(comBuffer \o SubSeq(stream, pos + 1, pos + n), <<>>) IN
        /\ comBuffer' = r.buf
        /\ handed' = handed \o r.out
    /\ pos' = pos + n
    /\ lastOp' = "serial_data"
    /\ UNCHANGED <<prog, stream, sentFrames, buffer, isReading, pc, frames>>
    /\ UNCHANGED fusionVars
    /\ UNCHANGED linkVars
    /\ UNCHANGED sigVars

-----------------------------------------------------------------------------
(* Decimal numbers: [n, e] stands for n / 10^e; kept normalised *)

RECURSIVE Pow10(_)
Pow10(k) == IF k = 0 THEN 1 ELSE 10 * Pow10(k - 1)

RECURSIVE Dec(_, _)
Dec(n, e) ==
    IF e > 0 /\ n % 10 = 0 THEN Dec(n \div 10, e - 1) ELSE [n |-> n, e |-> e]

DecInt(k) == Dec(k, 0)

DecAdd(a, b) ==
    LET e == IF a.e > b.e THEN a.e ELSE b.e
    IN  Dec(a.n * Pow10(e - a.e) + b.n * Pow10(e - b.e), e)

DecSub(a, b) == DecAdd(a, [n |-> 0 - b.n, e |-> b.e])

DecMul(a, b) == Dec(a.n * b.n, a.e + b.e)

\* a / 10^k
DecShift(a, k) == Dec(a.n, a.e + k)

\* a * 10
TimesTen(a) == IF a.e > 0 THEN Dec(a.n, a.e - 1) ELSE Dec(a.n * 10, 0)

\* Math.round: the nearest integer, halves towards +Infinity
MathRound(a) ==
    LET p == Pow10(a.e) IN (a.n \div p) + (IF 2 * (a.n % p) >= p THEN 1 ELSE 0)

\* Number(x.toFixed(8)): x rounded to 8 decimals
ToFixed8(a) ==
    IF a.e <= 8 THEN a
    ELSE LET p == Pow10(a.e - 8)
         IN  Dec((a.n \div p) + (IF 2 * (a.n % p) >= p THEN 1 ELSE 0), 8)

-----------------------------------------------------------------------------
(* gps_server.js: constants and helpers of the sonar frame processing *)

\* const SAMPLE_RESOLUTION = 0.2178; // cm/sample
SAMPLE_RESOLUTION == [n |-> 2178, e |-> 4]

\* const EMA_ALPHA = 0.1;
EMA_ALPHA == [n |-> 1, e |-> 1]

DB_WRITE_INTERVAL_MS == 3000

\* if (reflection.value < 50) return;
EMIT_THRESHOLD == 50

\* coordinates that stand in for a fix that was never received
GetGpsCoordinatesDefault ==
    IF ~currentGpsData.initialized
    THEN [lat |-> [n |-> 1, e |-> 0], lon |-> [n |-> 1, e |-> 0]]
    ELSE [lat |-> currentGpsData.lat, lon |-> currentGpsData.lon]

\* function getGpsCoordinates()
GetGpsCoordinates ==
    IF ~currentGpsData.initialized
    THEN [lat |-> Null, lon |-> Null]
    ELSE [lat |-> currentGpsData.lat, lon |-> currentGpsData.lon]

\* function applyExponentialSmoothing(currentDistance): the value returned, which is
\* also the new lastSmoothedDistance
ApplyExponentialSmoothing(currentDistance) ==
    IF lastSmoothedDistance = Null
    THEN currentDistance
    ELSE DecAdd(DecMul(EMA_ALPHA, currentDistance),
                DecMul(DecSub(DecInt(1), EMA_ALPHA), lastSmoothedDistance))

\* JavaScript truthiness of a coordinate: null, undefined and 0 are falsy
Truthy(x) == x # Null /\ x # [n |-> 0, e |-> 0]

\* a throttle that lets every frame through
ThrottleOff(currentTime) == FALSE

\* a throttle that wants more than the interval to have passed
ThrottleStrict(currentTime) == currentTime - lastDbWriteTimestamp <= DB_WRITE_INTERVAL_MS

\* if (currentTime - lastDbWriteTimestamp < DB_WRITE_INTERVAL_MS) return;
ThrottleSkips(currentTime) == currentTime - lastDbWriteTimestamp < DB_WRITE_INTERVAL_MS

\* a database write that clears the collection, as earlier versions did
ClearedAfterDbWrite(collected) == <<>>

\* await sonarPool.query(INSERT_SQL, values);
\* "Note: We no longer clear the array here, as the GPS pipe will handle that."
CollectedAfterDbWrite(collected) == collected

-----------------------------------------------------------------------------
(* gps_server.js: processDataPacket *)

\* the results of findPrimaryReflection(rawSamples) the frames under test produce:
\* no sample above zero behind the blind zone, and a peak beyond 8 bits next to the
\* transducer
Reflections ==
    { [value |-> 0, index |-> -1], [value |-> 300, index |-> 1] }

\* ms between two consecutive frames
TimeSteps == {1500, 3000}

\* frames processed in a run
MaxFrames == 3

\* the synchronous part of processDataPacket, up to the await of the insert;
\* dt is the time since the step before, refl the reflection of the frame
ProcessDataPacket(dt, refl) ==
    /\ serverUp
    /\ nFrames' = nFrames + 1
    /\ LET timestamp == now + dt
           distance == DecMul(DecInt(refl.index), SAMPLE_RESOLUTION)
           reflection == [value |-> refl.value, index |-> refl.index,
                          distance |-> distance]
           smoothedDistance == ApplyExponentialSmoothing(distance)
           distMM == MathRound(TimesTen(smoothedDistance))
           peakValue == IF refl.value > 255 THEN 255 ELSE refl.value
           record == [timestamp |-> timestamp, reflection |-> reflection,
                      smoothedDistance |-> smoothedDistance,
                      gps |-> GetGpsCoordinates]
           currentTime == timestamp
       IN
        /\ now' = timestamp
        /\ lastSmoothedDistance' = smoothedDistance
        /\ IF refl.value < EMIT_THRESHOLD
           THEN /\ lastOp' = "frame_low"
                /\ serverUp' = serverUp
                /\ UNCHANGED <<rawWsOut, collectedSonarData, lastDbWriteTimestamp,
                               sonarPending, sonarAttempts>>
           ELSE IF distMM < 0 \/ distMM > 65535
           THEN \* buffer.writeUInt16BE(distMM, 0) throws: the promise of the call is
                \* rejected and nothing handles it, which ends the process or not,
                \* as the node version has it
                /\ lastOp' = "frame_throw"
                /\ serverUp' \in BOOLEAN
                /\ UNCHANGED <<rawWsOut, collectedSonarData, lastDbWriteTimestamp,
                               sonarPending, sonarAttempts>>
           ELSE /\ serverUp' = serverUp
                /\ rawWsOut' = <<distMM \div 256, distMM % 256, peakValue>>
                /\ collectedSonarData' = Append(collectedSonarData, record)
                /\ IF ThrottleSkips(currentTime)
                   THEN /\ lastOp' = "frame_throttled"
                        /\ UNCHANGED <<lastDbWriteTimestamp, sonarPending, sonarAttempts>>
                   ELSE IF ~Truthy(record.gps.lat) \/ ~Truthy(record.gps.lon)
                   THEN /\ lastOp' = "frame_nogps"
                        /\ UNCHANGED <<lastDbWriteTimestamp, sonarPending, sonarAttempts>>
                   ELSE /\ lastDbWriteTimestamp' = currentTime
                        /\ sonarPending' = Append(sonarPending,
                              [timestamp |-> record.timestamp,
                               latitude |-> record.gps.lat,
                               longitude |-> record.gps.lon,
                               max_value |-> reflection.value,
                               max_sample_index |-> reflection.index,
                               max_distance_cm |-> record.smoothedDistance])
                        /\ sonarAttempts' = Append(sonarAttempts, currentTime)
                        /\ lastOp' = "frame_insert"
    /\ UNCHANGED <<currentGpsData, sonarRows, gh, nextLineId, ioLog, gpsPoints>>
    /\ UNCHANGED reasmVars
    /\ UNCHANGED <<server, clock, timers, gpsRunning, gpsSpawns, gpsExits, sonarPort>>
    /\ UNCHANGED sigVars

\* a queue that keeps the answered insert for another attempt
KeepAt(q, i) == q

RemoveAt(q, i) == SubSeq(q, 1, i - 1) \o SubSeq(q, i + 1, Len(q))

\* the database answers the i-th pending sonar_readings insert; processDataPacket
\* resumes after its await: try { ... console.log } catch { console.error }
SonarInsertDone(i, ok) ==
    /\ serverUp
    /\ i \in 1..Len(sonarPending)
    /\ sonarPending' = RemoveAt(sonarPending, i)
    /\ sonarRows' = IF ok THEN sonarRows \cup {sonarPending[i]} ELSE sonarRows
    /\ collectedSonarData' =
          IF ok THEN CollectedAfterDbWrite(collectedSonarData) ELSE collectedSonarData
    /\ lastOp' = IF ok THEN "sonar_insert_ok" ELSE "sonar_insert_failed"
    /\ UNCHANGED <<now, lastSmoothedDistance, lastDbWriteTimestamp, currentGpsData,
                   rawWsOut, sonarAttempts, gh, nextLineId, nFrames, ioLog, gpsPoints>>
    /\ UNCHANGED reasmVars
    /\ UNCHANGED linkVars
    /\ UNCHANGED sigVars

-----------------------------------------------------------------------------
(* gps_server.js: startGpsPipe, the gpsd.stdout.on("data") callback *)

\* callbacks that may be awaiting the database at the same time
MaxHandlers == 2

\* gpspipe lines received in a run
MaxGpsLines == 2

\* the lines under test: a 3D fix, a report without fix, a SKY report, and text
\* JSON.parse rejects
GpsMsgs ==
    { [class |-> "TPV", mode |-> 3, lat |-> Dec(445, 1), lon |-> Dec(1000000004, 9)],
      [class |-> "TPV", mode |-> 1, lat |-> Null, lon |-> Null],
      [class |-> "SKY", mode |-> 0, lat |-> Null, lon |-> Null],
      [class |-> "garbage", mode |-> 0, lat |-> Null, lon |-> Null] }

IdleHandler == [pc |-> "idle", lines |-> <<>>, depth |-> Null]

\* const msg = JSON.parse(line) throws on the lines it rejects: catch, next line
RECURSIVE SkipUnparsable(_)
SkipUnparsable(lines) ==
    IF lines # <<>> /\ Head(lines).msg.class = "garbage"
    THEN SkipUnparsable(Tail(lines))
    ELSE lines

\* for (let line of lines): the callback runs on to the next
\* await gpsPool.query("INSERT INTO gps_raw ...") or to its end
RunToRawInsert(lines) ==
    LET rest == SkipUnparsable(lines) IN
    IF rest = <<>> THEN IdleHandler
    ELSE [pc |-> "awaitRaw", lines |-> rest, depth |-> Null]

\* a batch that carries the latest record alone
LatestOnly(collected) ==
    LET d == collected[Len(collected)] IN
    << [time |-> [iso |-> d.timestamp], depth_cm |-> d.smoothedDistance,
        lat |-> d.gps.lat, lon |-> d.gps.lon] >>

\* a batch that leaves out the oldest record
BatchWithoutOldest(collected) ==
    [i \in 1..(Len(collected) - 1) |->
        [time |-> [iso |-> collected[i + 1].timestamp],
         depth_cm |-> collected[i + 1].smoothedDistance,
         lat |-> collected[i + 1].gps.lat,
         lon |-> collected[i + 1].gps.lon]]

\* collectedSonarData.map(data => ({time, depth_cm, lat, lon}))
BatchToEmit(collected) ==
    [i \in 1..Len(collected) |->
        [time |-> [iso |-> collected[i].timestamp],
         depth_cm |-> collected[i].smoothedDistance,
         lat |-> collected[i].gps.lat,
         lon |-> collected[i].gps.lon]]

\* a new chunk of gpspipe output: lines = data.toString().split("\n").filter(Boolean)
GpsData(msgs) ==
    /\ serverUp
    /\ nextLineId + Len(msgs) <= MaxGpsLines + 1
    /\ \E h \in 1..MaxHandlers :
        /\ gh[h].pc = "idle"
        /\ \A k \in 1..(h - 1) : gh[k].pc # "idle"
        /\ gh' = [gh EXCEPT ![h] = RunToRawInsert(
                    [i \in 1..Len(msgs) |-> [id |-> nextLineId + i - 1, msg |-> msgs[i]]])]
    /\ nextLineId' = nextLineId + Len(msgs)
    /\ lastOp' = "gps_data"
    /\ UNCHANGED <<now, lastSmoothedDistance, lastDbWriteTimestamp, collectedSonarData,
                   currentGpsData, rawWsOut, sonarPending, sonarAttempts, sonarRows,
                   nFrames, ioLog, gpsPoints>>
    /\ UNCHANGED reasmVars
    /\ UNCHANGED linkVars
    /\ UNCHANGED sigVars

\* the gps_raw insert of callback h is answered
GpsRawInsertDone(h, ok) ==
    /\ serverUp
    /\ gh[h].pc = "awaitRaw"
    /\ LET line == Head(gh[h].lines)
           msg == line.msg
           rest == Tail(gh[h].lines)
       IN
        IF ~ok
        THEN \* the await throws: catch (err), next line
             /\ gh' = [gh EXCEPT ![h] = RunToRawInsert(rest)]
             /\ lastOp' = "gps_raw_failed"
             /\ UNCHANGED <<currentGpsData, ioLog>>
        ELSE IF msg.class = "TPV" /\ msg.mode >= 2 /\ Truthy(msg.lat) /\ Truthy(msg.lon)
        THEN \* update currentGpsData, read the depth, await the gps_points insert
             /\ currentGpsData' = [lat |-> msg.lat, lon |-> msg.lon, initialized |-> TRUE]
             /\ gh' = [gh EXCEPT ![h] =
                        [pc |-> "awaitPoints", lines |-> gh[h].lines,
                         depth |-> DecShift(IF lastSmoothedDistance # Null
                                            THEN lastSmoothedDistance ELSE DecInt(0), 2)]]
             /\ ioLog' = Append(ioLog, [ev |-> "raw_count_update"])
             /\ lastOp' = "gps_fix_accepted"
        ELSE IF msg.class = "SKY"
        THEN /\ ioLog' = ioLog \o <<[ev |-> "raw_count_update"], [ev |-> "satellite_update"]>>
             /\ gh' = [gh EXCEPT ![h] = RunToRawInsert(rest)]
             /\ lastOp' = "gps_sky"
             /\ UNCHANGED currentGpsData
        ELSE /\ ioLog' = Append(ioLog, [ev |-> "raw_count_update"])
             /\ gh' = [gh EXCEPT ![h] = RunToRawInsert(rest)]
             /\ lastOp' = "gps_no_fix"
             /\ UNCHANGED currentGpsData
    /\ UNCHANGED <<now, lastSmoothedDistance, lastDbWriteTimestamp, collectedSonarData,
                   rawWsOut, sonarPending, sonarAttempts, sonarRows, nextLineId, nFrames,
                   gpsPoints>>
    /\ UNCHANGED reasmVars
    /\ UNCHANGED linkVars
    /\ UNCHANGED sigVars

\* a callback that carries on whatever the database answered
PointsAwaitIgnored(ok) == TRUE

\* await gpsPool.query("INSERT INTO gps_points ..."): the callback carries on behind
\* the await when the insert is stored; a rejection throws to catch (err)
PointsAwaitReturns(ok) == ok

\* the gps_points insert of callback h is answered
GpsPointsInsertDone(h, ok) ==
    /\ serverUp
    /\ gh[h].pc = "awaitPoints"
    /\ LET line == Head(gh[h].lines)
           msg == line.msg
           rest == Tail(gh[h].lines)
           gpsEvent == [ev |-> "gps", id |-> line.id,
                        lat |-> ToFixed8(msg.lat), lon |-> ToFixed8(msg.lon),
                        fix_mode |-> msg.mode, depth_m |-> gh[h].depth]
       IN
        IF ~PointsAwaitReturns(ok)
        THEN /\ gh' = [gh EXCEPT ![h] = RunToRawInsert(rest)]
             /\ lastOp' = "gps_points_failed"
             /\ UNCHANGED <<collectedSonarData, ioLog, gpsPoints>>
        ELSE /\ gpsPoints' = IF ok
                             THEN Append(gpsPoints, [id |-> line.id, lat |-> msg.lat,
                                                     lon |-> msg.lon, fix_mode |-> msg.mode])
                             ELSE gpsPoints
             /\ IF Len(collectedSonarData) > 0
                THEN /\ ioLog' = ioLog \o
                          <<[ev |-> "sonar_batch", batch |-> BatchToEmit(collectedSonarData)],
                            gpsEvent>>
                     /\ collectedSonarData' = <<>>
                     /\ lastOp' = "gps_fix_batch"
                ELSE /\ ioLog' = Append(ioLog, gpsEvent)
                     /\ lastOp' = "gps_fix_emit"
                     /\ UNCHANGED collectedSonarData
             /\ gh' = [gh EXCEPT ![h] = RunToRawInsert(rest)]
    /\ UNCHANGED <<now, lastSmoothedDistance, lastDbWriteTimestamp, currentGpsData,
                   rawWsOut, sonarPending, sonarAttempts, sonarRows, nextLineId, nFrames>>
    /\ UNCHANGED reasmVars
    /\ UNCHANGED linkVars
    /\ UNCHANGED sigVars

-----------------------------------------------------------------------------
(* gps_server.js, gps_server_old.js: the supervision of the two links *)

\* setTimeout(startGpsPipe, 5000)
RESPAWN_DELAY_MS == 5000

\* ms the clock advances in one step
ClockStep == 1000

\* the clock stops here
MaxClock == 12000

\* exits of gpspipe children in a run
MaxExits == 2

\* a close handler that schedules nothing
NoTimerAfterClose(ts, t) == ts

\* gpsd.on("close", ...): setTimeout(startGpsPipe, 5000)
TimersAfterClose(ts, t) == ts \cup {[fn |-> "startGpsPipe", due |-> t + RESPAWN_DELAY_MS]}

\* main(): startGpsPipe() has spawned the first child and startSonarPort() has
\* opened the port
LinkStart ==
    /\ serverUp = TRUE
    /\ clock = 0
    /\ timers = {}
    /\ gpsRunning = 1
    /\ gpsSpawns = <<0>>
    /\ gpsExits = <<>>
    /\ sonarPort = "open"

\* time passes; a timer that is due runs before the clock moves on
Tick ==
    /\ serverUp
    /\ clock + ClockStep <= MaxClock
    /\ \A t \in timers : t.due > clock
    /\ clock' = clock + ClockStep
    /\ lastOp' = "tick"
    /\ UNCHANGED <<server, serverUp, timers, gpsRunning, gpsSpawns, gpsExits, sonarPort>>
    /\ UNCHANGED <<reasmVars, fusionVars, sigVars>>

\* a gpspipe child exits: gpsd.on("close", (code) => { ... })
GpsPipeClose ==
    /\ serverUp
    /\ gpsRunning > 0
    /\ Len(gpsExits) < MaxExits
    /\ gpsRunning' = gpsRunning - 1
    /\ gpsExits' = Append(gpsExits, clock)
    /\ timers' = TimersAfterClose(timers, clock)
    /\ lastOp' = "gps_exit"
    /\ UNCHANGED <<server, serverUp, clock, gpsSpawns, sonarPort>>
    /\ UNCHANGED <<reasmVars, fusionVars, sigVars>>

\* a due timer runs startGpsPipe(): gpsd = spawn("gpspipe", ["-w"])
StartGpsPipe(t) ==
    /\ serverUp
    /\ t \in timers
    /\ t.fn = "startGpsPipe"
    /\ t.due <= clock
    /\ timers' = timers \ {t}
    /\ gpsRunning' = gpsRunning + 1
    /\ gpsSpawns' = Append(gpsSpawns, clock)
    /\ lastOp' = "gps_respawn"
    /\ UNCHANGED <<server, serverUp, clock, gpsExits, sonarPort>>
    /\ UNCHANGED <<reasmVars, fusionVars, sigVars>>

\* port.on('error', ...): gps_server.js logs; gps_server_old.js logs and calls
\* process.exit()
SerialPortError ==
    /\ serverUp
    /\ sonarPort = "open"
    /\ sonarPort' = "errored"
    /\ serverUp' = (server = "gps_server")
    /\ lastOp' = "serial_error"
    /\ UNCHANGED <<server, clock, timers, gpsRunning, gpsSpawns, gpsExits>>
    /\ UNCHANGED <<reasmVars, fusionVars, sigVars>>

\* the port closes (the device is unplugged): no 'close' listener is registered
SerialPortClose ==
    /\ serverUp
    /\ sonarPort \in {"open", "errored"}
    /\ sonarPort' = "closed"
    /\ lastOp' = "serial_close"
    /\ UNCHANGED <<server, serverUp, clock, timers, gpsRunning, gpsSpawns, gpsExits>>
    /\ UNCHANGED <<reasmVars, fusionVars, sigVars>>

NextLinks ==
    \/ Tick
    \/ GpsPipeClose
    \/ \E t \in timers : StartGpsPipe(t)
    \/ SerialPortError
    \/ SerialPortClose

-----------------------------------------------------------------------------
(* Part IV: the persistence tracker of the serial console, src/unnamed/part_001 *)

\* let VALUE_THRESHOLD
VALUE_THRESHOLD == 20

\* let PERSISTENCE_THRESHOLD (10 in the source)
PERSISTENCE_THRESHOLD == 2

\* the room above the threshold: Math.min(persistence + 1, PERSISTENCE_THRESHOLD + 5)
PERSISTENCE_HEADROOM == 5

\* const BASE_DISTANCE_TOLERANCE (5 in the source)
BASE_DISTANCE_TOLERANCE == 1

\* const CONSOLIDATION_TOLERANCE (5 in the source)
CONSOLIDATION_TOLERANCE == 1

\* const NOISE_FLOOR_RANGE of the console (100 in the source)
TRACK_NOISE_FLOOR_RANGE == 1

\* getDynamicTolerance: const PEAK_MAX, const MAX_TOLERANCE_BOOST
PEAK_MAX == 255

MAX_TOLERANCE_BOOST == 15

\* findBlindZoneEnd: const searchLimit, and the index returned when the search fails
BZ_SEARCH_LIMIT == 500

BZ_DEFAULT_END == 150

\* the shortest distanceHistory kept: slice(-Math.max(5, PERSISTENCE_THRESHOLD * 2))
MIN_HISTORY == 5

\* samples of a frame of the console (1800 in the source)
TrackSamples == 4

\* the amplitude of an echo of the frames fed to the tracker
EchoValue == 30

\* frames fed to the tracker in one run
MaxTrackFrames == 11

Abs(x) == IF x < 0 THEN 0 - x ELSE x

Max2(a, b) == IF a >= b THEN a ELSE b

Min2(a, b) == IF a <= b THEN a ELSE b

RECURSIVE SumSeq(_)
SumSeq(s) == IF s = <<>> THEN 0 ELSE Head(s) + SumSeq(Tail(s))

\* the last n elements of s: s.slice(-n)
LastN(s, n) == IF Len(s) <= n THEN s ELSE SubSeq(s, Len(s) - n + 1, Len(s))

getDynamicTolerance(peakValue) ==
    LET normalizedPeak == Max2(0, peakValue - VALUE_THRESHOLD)
        boost == (normalizedPeak * MAX_TOLERANCE_BOOST) \div (PEAK_MAX - VALUE_THRESHOLD)
    IN  BASE_DISTANCE_TOLERANCE + boost

\* the k-th smallest element of a non-empty sequence (sorted[k - 1])
KthSmallest(h, k) ==
    CHOOSE v \in {h[i] : i \in DOMAIN h} :
        /\ Cardinality({i \in DOMAIN h : h[i] < v}) < k
        /\ k <= Cardinality({i \in DOMAIN h : h[i] <= v})

\* calculateMedian, times two: distances are kept as sample indices (a distance
\* is index * SAMPLE_RESOLUTION) and a median of an even number of them may be
\* a half
calculateMedian(distances) ==
    IF Len(distances) = 0 THEN 0
    ELSE LET mid == Len(distances) \div 2
         IN  IF Len(distances) % 2 = 0
             THEN KthSmallest(distances, mid) + KthSmallest(distances, mid + 1)
             ELSE 2 * KthSmallest(distances, mid + 1)

\* calculateNoiseFloor of the console, times TRACK_NOISE_FLOOR_RANGE
trackNoiseFloor(samples) ==
    IF Len(samples) - TRACK_NOISE_FLOOR_RANGE < 0 THEN 0
    ELSE SumSeq(LastN(samples, TRACK_NOISE_FLOOR_RANGE))

\* findBlindZoneEnd of the console: samples[i] <= noiseFloor * 1.2
trackBlindZoneEnd(samples, noiseFloorSum) ==
    LET below == {i \in 0..(Min2(Len(samples), BZ_SEARCH_LIMIT) - 1) :
                     samples[i + 1] * 10 * TRACK_NOISE_FLOOR_RANGE <= noiseFloorSum * 12}
    IN  IF below = {} THEN BZ_DEFAULT_END ELSE Min(below)

\* step 1 of trackAndFilterSignals: the samples above VALUE_THRESHOLD from startIndex on
potentialPeaks(samples, startIndex) ==
    SelectSeq([i \in 1..Len(samples) |-> [index |-> i - 1, peak |-> samples[i]]],
              LAMBDA p : p.index >= startIndex /\ p.peak > VALUE_THRESHOLD)

\* the strongest peak of a group, the last one of equal peaks
lastDominantPeak(group) ==
    group[Max({i \in DOMAIN group : \A j \in DOMAIN group : group[j].peak <= group[i].peak})]

\* reduce((max, p) => (p.peak > max.peak ? p : max)): the first of the strongest
dominantPeak(group) ==
    group[Min({i \in DOMAIN group : \A j \in DOMAIN group : group[j].peak <= group[i].peak})]

\* the consolidation loop with CONSOLIDATION_TOLERANCE = tolerance
RECURSIVE consolidatePeaks(_, _, _, _)
consolidatePeaks(peaks, currentGroup, consolidated, tolerance) ==
    IF peaks = <<>>
    THEN IF currentGroup = <<>> THEN consolidated
         ELSE Append(consolidated, dominantPeak(currentGroup))
    ELSE LET peak == Head(peaks) IN
         IF currentGroup = <<>>
         THEN consolidatePeaks(Tail(peaks), <<peak>>, consolidated, tolerance)
         ELSE IF peak.index - currentGroup[Len(currentGroup)].index <= tolerance
         THEN consolidatePeaks(Tail(peaks), Append(currentGroup, peak), consolidated, tolerance)
         ELSE consolidatePeaks(Tail(peaks), <<peak>>,
                               Append(consolidated, dominantPeak(currentGroup)), tolerance)

\* steps 1 and 2 of trackAndFilterSignals: const finalPeaks
consolidatedPeaks(samples, tolerance) ==
    consolidatePeaks(potentialPeaks(samples, trackBlindZoneEnd(samples, trackNoiseFloor(samples))),
                     <<>>, <<>>, tolerance)

\* the peaks of a frame the tracker works on
finalPeaks(samples) == consolidatedPeaks(samples, CONSOLIDATION_TOLERANCE)

\* the position in signals of closestSignalId, 0 for null: the first of the
\* closest signals whose own tolerance reaches the peak
closestSignal(peak, signals) ==
    LET near == {k \in DOMAIN signals :
                    Abs(peak.index - signals[k].index) <= getDynamicTolerance(signals[k].peak)}
        best == {k \in near : \A j \in near :
                    Abs(peak.index - signals[k].index) <= Abs(peak.index - signals[j].index)}
    IN  IF near = {} THEN 0 ELSE Min(best)

\* an id made of the peak's index alone
newIdByIndex(frameNo, peak) == <<0, peak.index>>

\* the id of a new track: `sig_${pointIndex}_${peak.index}`
newId(frameNo, peak) == <<frameNo, peak.index>>

\* a persistence counter without a ceiling
uncappedPersistence(persistence) == persistence + 1

\* persistence of a matched signal
matchedPersistence(persistence) ==
    Min2(persistence + 1, PERSISTENCE_THRESHOLD + PERSISTENCE_HEADROOM)

\* a tracker whose unmatched signals all decay at the same rate
uniformDecay(persistence) == 1

\* const decayRate
decayRate(persistence) == IF persistence > PERSISTENCE_THRESHOLD THEN 2 ELSE 1

\* a tracker that keeps every decayed signal
neverDropped(newPersistence) == TRUE

\* a decayed signal is kept: if (newPersistence > 0)
survivesDecay(newPersistence) == newPersistence > 0

updatedSignal(signal, peak) ==
    LET newDistanceHistory ==
            LastN(Append(signal.distanceHistory, peak.index),
                  Max2(MIN_HISTORY, PERSISTENCE_THRESHOLD * 2))
    IN  [id |-> signal.id, index |-> peak.index, peak |-> peak.peak,
         persistence |-> matchedPersistence(signal.persistence),
         distanceHistory |-> newDistanceHistory,
         medianDistance |-> calculateMedian(newDistanceHistory)]

decayedSignal(signal) ==
    LET currentDistanceHistory == IF signal.distanceHistory = <<>> THEN <<>>
                                  ELSE Tail(signal.distanceHistory)
    IN  [signal EXCEPT !.persistence = signal.persistence - decayRate(signal.persistence),
                       !.distanceHistory = currentDistanceHistory,
                       !.medianDistance = calculateMedian(currentDistanceHistory)]

newSignal(frameNo, peak) ==
    [id |-> newId(frameNo, peak), index |-> peak.index, peak |-> peak.peak,
     persistence |-> 1, distanceHistory |-> <<peak.index>>,
     medianDistance |-> 2 * peak.index]

\* trackAndFilterSignals(samples) with persistentSignals = signals and pointIndex = frameNo
trackAndFilterSignals(samples, signals, frameNo) ==
    LET peaks == finalPeaks(samples)
        peakToSignalMap == [i \in DOMAIN peaks |-> closestSignal(peaks[i], signals)]
        \* the first peak assigned to a signal updates it; the later ones are skipped
        updates(i) == /\ peakToSignalMap[i] # 0
                      /\ \A j \in 1..(i - 1) : peakToSignalMap[j] # peakToSignalMap[i]
        matchedSignalIds == {peakToSignalMap[i] : i \in {j \in DOMAIN peaks : updates(j)}}
        peakNos == [i \in DOMAIN peaks |-> i]
        matchedNos == SelectSeq(peakNos, updates)
        newNos == SelectSeq(peakNos, LAMBDA i : ~updates(i))
        matched == [n \in DOMAIN matchedNos |->
                       updatedSignal(signals[peakToSignalMap[matchedNos[n]]], peaks[matchedNos[n]])]
        decayed == SelectSeq([k \in DOMAIN signals |->
                                 IF k \in matchedSignalIds THEN Null
                                 ELSE decayedSignal(signals[k])],
                             LAMBDA s : s # Null /\ survivesDecay(s.persistence))
        created == [n \in DOMAIN newNos |-> newSignal(frameNo, peaks[newNos[n]])]
        next == matched \o decayed \o created
        persistent == {k \in DOMAIN next : next[k].persistence >= PERSISTENCE_THRESHOLD}
        headers == {next[k].medianDistance : k \in persistent} \ {0}
    IN  [signals |-> next,
         startIndex |-> trackBlindZoneEnd(samples, trackNoiseFloor(samples)),
         newIds |-> [n \in DOMAIN created |-> created[n].id],
         detections |-> Len(peaks),
         totalPersistentCount |-> Cardinality(persistent),
         primaryValueForSmoothing |-> IF headers = {} THEN 0 ELSE Min(headers)]

\* the places of the echoes of the frames fed to the tracker: silence, one
\* echo, two echoes on either side of it, and the ringing of the transducer
\* over the first three samples
EchoPlaces == { {}, {2}, {1, 3}, {0, 1, 2} }

\* the frames of the console: every sample is silent or an echo
TrackFrames ==
    { [i \in 1..TrackSamples |-> IF (i - 1) \in places THEN EchoValue ELSE 0] :
        places \in EchoPlaces }

\* processDataPacket(rawSamples) of the console: the tracker runs, its primary
\* value is handed to applyExponentialSmoothing, and the frame counter advances
TrackFrame(samples) ==
    /\ tracker = "persistence"
    /\ pointIndex < MaxTrackFrames
    /\ \E result \in {trackAndFilterSignals(samples, persistentSignals, pointIndex)} :
        /\ persistentSignals' = result.signals
        /\ issuedIds' = issuedIds \o result.newIds
        /\ quietFrames' = IF result.detections = 0 THEN quietFrames + 1 ELSE 0
        /\ persistenceAtQuiet' =
              IF result.detections = 0 THEN persistenceAtQuiet
              ELSE Max({result.signals[k].persistence : k \in DOMAIN result.signals})
        /\ primaryValue' = result.primaryValueForSmoothing
        /\ blindZoneEnd' = result.startIndex
    /\ pointIndex' = pointIndex + 1
    /\ lastOp' = "track"
    /\ UNCHANGED <<tracker, kalmanVars, consoleVars, webVars, extractVars, callVars, pipeVars>>
    /\ UNCHANGED <<reasmVars, fusionVars, linkVars>>

-----------------------------------------------------------------------------
(* Part V: the Kalman tracker of the serial console, src/unnamed/part_002 *)

\* const NUM_SIGNALS of the console (10 in the source)
KALMAN_NUM_SIGNALS == 2

\* const SIGNAL_THRESHOLD of the console
KALMAN_SIGNAL_THRESHOLD == 50

\* const NOISE_FLOOR_RANGE of the console (300 in the source)
KALMAN_NOISE_FLOOR_RANGE == 2

\* const MIN_SIGNAL_SEPARATION of the console (8 in the source)
KALMAN_MIN_SIGNAL_SEPARATION == 2

\* const ASSOCIATION_WINDOW (8 in the source)
ASSOCIATION_WINDOW == 2

\* const IGNORE_FIRST_SAMPLES of the console (4 in the source)
KALMAN_IGNORE_FIRST_SAMPLES == 1

\* const MAX_BZ_SEARCH_SAMPLES of the console (150 in the source)
KALMAN_MAX_BZ_SEARCH_SAMPLES == 3

\* samples of a frame of the console (1800 in the source)
KalmanSamples == 5

\* frames fed to the Kalman tracker in one run
MaxKalmanFrames == 4

\* the level of the noise in the tail of a frame
NoiseLevel == 10

\* exact fractions n / d with d > 0, in lowest terms
RECURSIVE Gcd(_, _)
Gcd(a, b) == IF b = 0 THEN a ELSE Gcd(b, a % b)

Rat(n, d) ==
    LET g == Gcd(Abs(n), Abs(d))
        sign == IF d < 0 THEN 0 - 1 ELSE 1
    IN  [n |-> sign * (n \div g), d |-> sign * (d \div g)]

RatInt(i) == [n |-> i, d |-> 1]

RatAdd(a, b) == Rat(a.n * b.d + b.n * a.d, a.d * b.d)

RatSub(a, b) == Rat(a.n * b.d - b.n * a.d, a.d * b.d)

RatMul(a, b) == Rat(a.n * b.n, a.d * b.d)

RatDiv(a, b) == Rat(a.n * b.d, a.d * b.n)

RatAbs(a) == [n |-> Abs(a.n), d |-> a.d]

RatLess(a, b) == a.n * b.d < b.n * a.d

\* Math.round: the nearest integer, halves upwards
RatRound(a) == (2 * a.n + a.d) \div (2 * a.d)

\* const Q_PROCESS_NOISE = 0.1
Q_PROCESS_NOISE == Rat(1, 10)

\* const P_INITIAL_COVARIANCE = 10.0
P_INITIAL_COVARIANCE == RatInt(10)

\* const SNR_FACTOR = 2.5, times two
SNR_FACTOR_X2 == 5

\* calculateNoiseFloor of the console: the 5th percentile of the tail
kalmanNoiseFloor(values) ==
    LET tailSamples == LastN(values, KALMAN_NOISE_FLOOR_RANGE)
        index == (Len(tailSamples) * 5) \div 100
    IN  IF tailSamples = <<>> THEN 0 ELSE KthSmallest(tailSamples, index + 1)

\* a running mean that adds currentNoiseFloor / count
meanWithoutDelta(runningNoiseAvg, count, currentNoiseFloor) ==
    RatAdd(runningNoiseAvg, RatDiv(RatInt(currentNoiseFloor), RatInt(count)))

\* const delta = currentNoiseFloor - this.runningNoiseAvg;
\* this.runningNoiseAvg += delta / this.count
welfordMean(runningNoiseAvg, count, currentNoiseFloor) ==
    RatAdd(runningNoiseAvg,
           RatDiv(RatSub(RatInt(currentNoiseFloor), runningNoiseAvg), RatInt(count)))

\* NoiseFloorAverager.update: Welford's running mean and M2, kept as the exact
\* sums they stand for (runningNoiseAvg = sum / count,
\* M2 = sumSq - sum * sum / count); min is Infinity while count = 0
averagerUpdate(avg, currentNoiseFloor) ==
    [count |-> avg.count + 1,
     runningNoiseAvg |-> welfordMean(avg.runningNoiseAvg, avg.count + 1, currentNoiseFloor),
     sum   |-> avg.sum + currentNoiseFloor,
     sumSq |-> avg.sumSq + currentNoiseFloor * currentNoiseFloor,
     min   |-> IF avg.count = 0 THEN currentNoiseFloor ELSE Min2(avg.min, currentNoiseFloor),
     max   |-> Max2(avg.max, currentNoiseFloor)]

\* parseFloat(getRunningAverage()), in tenths: runningNoiseAvg.toFixed(1)
runningAverageTenths(avg) ==
    IF avg.count = 0 THEN 0
    ELSE (20 * avg.sum + avg.count) \div (2 * avg.count)

\* parseFloat(getStandardDeviation()), in tenths: sqrt(M2 / count).toFixed(1)
standardDeviationTenths(avg) ==
    IF avg.count <= 1 THEN 0
    ELSE LET m2c == avg.count * avg.sumSq - avg.sum * avg.sum
         IN  CHOOSE t \in 0..(10 * avg.max + 1) :
                 /\ (2 * t - 1) * (2 * t - 1) * avg.count * avg.count <= 400 * m2c \/ t = 0
                 /\ 400 * m2c < (2 * t + 1) * (2 * t + 1) * avg.count * avg.count

\* DYNAMIC_THRESHOLD, in tenths:
\* parseFloat((runningNoiseAvgValue + runningStdDevValue * SNR_FACTOR).toFixed(1))
dynamicThresholdTenths(avgTenths, stdTenths) ==
    (2 * avgTenths + SNR_FACTOR_X2 * stdTenths + 1) \div 2

\* findBlindZoneEnd of the console: the sample before the first one below the
\* running noise average, searched from IGNORE_FIRST_SAMPLES on
kalmanBlindZoneEnd(values, avgTenths) ==
    LET below == {i \in KALMAN_IGNORE_FIRST_SAMPLES..(KALMAN_MAX_BZ_SEARCH_SAMPLES - 1) :
                     i < Len(values) /\ values[i + 1] * 10 < avgTenths}
    IN  IF below = {} THEN KALMAN_MAX_BZ_SEARCH_SAMPLES ELSE Min(below) - 1

\* findNextRawPeak: the first of the strongest samples from startIdx on that
\* reach the threshold; Null when there is none
findNextRawPeak(values, startIdx, thresholdTenths) ==
    LET cand == {i \in startIdx..(Len(values) - 1) :
                    values[i + 1] * 10 >= thresholdTenths /\ values[i + 1] > 0}
        best == {i \in cand : \A j \in cand : values[j + 1] <= values[i + 1]}
    IN  IF cand = {} THEN Null
        ELSE [index |-> Min(best), amplitude |-> values[Min(best) + 1]]

\* the while (true) loop of updateTracks that collects the measurements
RECURSIVE collectMeasurements(_, _, _, _)
collectMeasurements(values, searchIndex, thresholdTenths, measurements) ==
    LET peak == findNextRawPeak(values, searchIndex, thresholdTenths) IN
    IF peak = Null THEN measurements
    ELSE collectMeasurements(values, peak.index + KALMAN_MIN_SIGNAL_SEPARATION,
                             thresholdTenths, Append(measurements, peak))

\* KalmanFilter.predict
kfPredict(kf) == [kf EXCEPT !.P = RatAdd(kf.P, Q_PROCESS_NOISE)]

\* KalmanFilter.update
kfUpdate(kf, z, R_dynamic) ==
    LET K == RatDiv(kf.P, RatAdd(kf.P, R_dynamic))
    IN  [x |-> RatAdd(kf.x, RatMul(K, RatSub(RatInt(z), kf.x))),
         P |-> RatMul(RatSub(RatInt(1), K), kf.P)]

\* the position in measurements of bestMatch for a predicted position, 0 for
\* null: the first of the closest unused measurements inside the window
bestMatch(predictedPos, measurements, usedMeasurements) ==
    LET dist(m) == RatAbs(RatSub(predictedPos, RatInt(measurements[m].index)))
        near == {m \in DOMAIN measurements :
                    /\ RatLess(dist(m), RatInt(ASSOCIATION_WINDOW))
                    /\ m \notin usedMeasurements}
        best == {m \in near : \A o \in near : ~RatLess(dist(o), dist(m))}
    IN  IF near = {} THEN 0 ELSE Min(best)

\* step 2 of updateTracks: the tracks, in Map order, take their measurements
\* (matches: which measurement each track took, for the record)
RECURSIVE associate(_, _, _, _, _, _)
associate(predicted, measurements, R_dynamic, usedMeasurements, nextTracks, matches) ==
    IF predicted = <<>>
    THEN [tracks |-> nextTracks, used |-> usedMeasurements, matches |-> matches]
    ELSE LET data == Head(predicted)
             m == bestMatch(data.kf.x, measurements, usedMeasurements)
         IN  IF m # 0
             THEN LET kf == kfUpdate(data.kf, measurements[m].index, R_dynamic)
                  IN  associate(Tail(predicted), measurements, R_dynamic,
                                usedMeasurements \cup {m},
                                Append(nextTracks,
                                       [id |-> data.id, kf |-> kf,
                                        amplitude |-> measurements[m].amplitude,
                                        filteredIndex |-> kf.x]),
                                Append(matches, [id |-> data.id, m |-> m]))
             ELSE associate(Tail(predicted), measurements, R_dynamic, usedMeasurements,
                            Append(nextTracks,
                                   [id |-> data.id, kf |-> data.kf,
                                    amplitude |-> data.amplitude,
                                    filteredIndex |-> data.kf.x]),
                            matches)

\* step 3 of updateTracks: unused measurements start tracks while there is room
RECURSIVE initTracks(_, _, _, _, _)
initTracks(measurements, m, usedMeasurements, nextTracks, nextId) ==
    IF m > Len(measurements) THEN [tracks |-> nextTracks, nextSignalID |-> nextId]
    ELSE IF m \notin usedMeasurements /\ Len(nextTracks) < KALMAN_NUM_SIGNALS
    THEN initTracks(measurements, m + 1, usedMeasurements,
                    Append(nextTracks,
                           [id |-> nextId,
                            kf |-> [x |-> RatInt(measurements[m].index),
                                    P |-> P_INITIAL_COVARIANCE],
                            amplitude |-> measurements[m].amplitude,
                            filteredIndex |-> RatInt(measurements[m].index)]),
                    nextId + 1)
    ELSE initTracks(measurements, m + 1, usedMeasurements, nextTracks, nextId)

\* the tracks in order of filteredIndex (a stable sort)
RECURSIVE sortByFilteredIndex(_)
sortByFilteredIndex(ts) ==
    IF ts = <<>> THEN <<>>
    ELSE LET first == Min({k \in DOMAIN ts :
                              \A j \in DOMAIN ts : ~RatLess(ts[j].filteredIndex, ts[k].filteredIndex)})
         IN  <<ts[first]>> \o
             sortByFilteredIndex(SubSeq(ts, 1, first - 1) \o SubSeq(ts, first + 1, Len(ts)))

\* KalmanSignalTracker.updateTracks(values, noiseStdDev, dynamicThreshold)
updateTracks(kalmanTracks, nextId, values, stdTenths, thresholdTenths) ==
    LET R_dynamic == Rat(stdTenths * stdTenths, 100)
        predicted == [k \in DOMAIN kalmanTracks |->
                         [kalmanTracks[k] EXCEPT !.kf = kfPredict(kalmanTracks[k].kf)]]
        measurements == collectMeasurements(values, 0, thresholdTenths, <<>>)
        assoc == associate(predicted, measurements, R_dynamic, {}, <<>>, <<>>)
        init == initTracks(measurements, 1, assoc.used, assoc.tracks, nextId)
        sorted == sortByFilteredIndex(init.tracks)
        finalSignals == [k \in 1..Min2(Len(sorted), KALMAN_NUM_SIGNALS) |->
                            [index |-> RatRound(sorted[k].filteredIndex),
                             amplitude |-> sorted[k].amplitude]]
    IN  [tracks |-> init.tracks,
         nextSignalID |-> init.nextSignalID,
         newIds |-> [n \in 1..(init.nextSignalID - nextId) |-> <<nextId + n - 1>>],
         measurements |-> measurements,
         predictedTracks |-> [k \in DOMAIN predicted |->
                                 [id |-> predicted[k].id, x |-> predicted[k].kf.x]],
         matches |-> assoc.matches,
         finalSignals |-> finalSignals]

\* the places of the echoes of the frames fed to the Kalman tracker
KalmanEchoPlaces == { {}, {0}, {1}, {2}, {0, 2} }

\* the frames of the console: echoes in front, then a dip below the noise and a
\* tail at the level of the noise
KalmanFrame(places, level) ==
    [i \in 1..KalmanSamples |->
        IF (i - 1) \in places THEN EchoValue
        ELSE IF i = 2 THEN 0
        ELSE level]

\* one turn of the while loop of port.on('data') of runSerialConsole: the noise
\* floor is averaged, the threshold and the end of the blind zone are
\* computed, the tracker runs and the signals beyond the blind zone are plotted
KalmanFramePacket(values) ==
    /\ tracker = "kalman"
    /\ packetcounter < MaxKalmanFrames
    /\ LET avg == averagerUpdate(noiseAverager, kalmanNoiseFloor(values))
           runningNoiseAvgValue == runningAverageTenths(avg)
           runningStdDevValue == standardDeviationTenths(avg)
           DYNAMIC_THRESHOLD == dynamicThresholdTenths(runningNoiseAvgValue, runningStdDevValue)
           blindZoneIndexEnd == kalmanBlindZoneEnd(values, runningNoiseAvgValue)
       IN  \E result \in {updateTracks(tracks, nextSignalID, values, runningStdDevValue,
                                       DYNAMIC_THRESHOLD)} :
           /\ noiseAverager' = avg
           /\ tracks' = result.tracks
           /\ nextSignalID' = result.nextSignalID
           /\ issuedIds' = issuedIds \o result.newIds
           /\ quietFrames' = IF result.measurements = <<>> THEN quietFrames + 1 ELSE 0
           /\ kalmanOut' = [threshold |-> DYNAMIC_THRESHOLD,
                            blindZoneIndexEnd |-> blindZoneIndexEnd,
                            measurements |-> result.measurements,
                            predictedTracks |-> result.predictedTracks,
                            matches |-> result.matches,
                            plotted |-> SelectSeq(result.finalSignals,
                                                  LAMBDA sig : sig.index # -1
                                                               /\ sig.index >= blindZoneIndexEnd)]
    /\ packetcounter' = packetcounter + 1
    /\ lastOp' = "kalman"
    /\ UNCHANGED <<tracker, persistVars, webVars, extractVars, callVars, pipeVars>>
    /\ UNCHANGED <<reasmVars, fusionVars, linkVars>>

-----------------------------------------------------------------------------
(* Part VI: the consistency trackers and the pulse extraction of the web
   server (web-apps/sonar-server-all-signals.js), of the console with the
   adaptive threshold (sonar-console-primary_adaptive_thresholding_play.js)
   and of the table console (src/unnamed/part_000) *)

\* const SIGNAL_THRESHOLD of the web server
SIGNAL_THRESHOLD == 60

\* const THRESHOLD of the table console
THRESHOLD == 50

\* const CONSISTENCY_SAMPLES (10 in the web server, 3 in the table console)
CONSISTENCY_SAMPLES == 3

\* const POSITION_TOLERANCE
POSITION_TOLERANCE == 1

\* const NUM_SIGNALS of the web server (20 in the source)
NUM_SIGNALS == 2

\* const MIN_SIGNAL_SEPARATION of the web server (20 in the source)
MIN_SIGNAL_SEPARATION == 2

\* const NOISE_FLOOR_RANGE of the web server (200) and of the table console (300)
WEB_NOISE_FLOOR_RANGE == 1

\* IGNORE_FIRST_SAMPLES of the web server (8 in the source)
WEB_IGNORE_FIRST_SAMPLES == 1

\* MAX_BZ_SEARCH_SAMPLES of the web server (300 in the source)
WEB_MAX_BZ_SEARCH_SAMPLES == 4

\* samples of a frame before its tail (1800 less the tail in the source)
WebEchoSamples == 4

\* the amplitude of a strong echo
StrongEcho == 100

\* frames fed to a consistency tracker in one run
MaxWebFrames == 4

\* the indices of the samples of values that reach threshold
peaksOf(values, threshold) == {i \in 0..(Len(values) - 1) : values[i + 1] >= threshold}

\* the position in history of the entry for pos, 0 when there is none
historyHas(h, newPos) ==
    IF \E k \in DOMAIN h : h[k].pos = newPos
    THEN Min({k \in DOMAIN h : h[k].pos = newPos}) ELSE 0

\* a tracker that reports a peak one frame early
consistentEarly(newCount) == newCount + 1 >= CONSISTENCY_SAMPLES

\* if (newCount >= this.consistencySamples)
isConsistentCount(newCount) == newCount >= CONSISTENCY_SAMPLES

\* the loop over this.history of SignalTracker.updateAndGetConsistentIndices
\* (web server): an entry takes the first current peak within the tolerance
RECURSIVE matchHistory(_, _, _, _)
matchHistory(h, currentPeaks, nextHistory, consistent) ==
    IF h = <<>>
    THEN [currentPeaks |-> currentPeaks, nextHistory |-> nextHistory,
          consistentIndices |-> consistent]
    ELSE LET oldPos == Head(h).pos
             found == {i \in (oldPos - POSITION_TOLERANCE)..(oldPos + POSITION_TOLERANCE) :
                          i \in currentPeaks}
         IN  IF found = {} THEN matchHistory(Tail(h), currentPeaks, nextHistory, consistent)
             ELSE LET newPos == Min(found)
                      newCount == Head(h).count + 1
                  IN  matchHistory(
                          Tail(h),
                          currentPeaks \ {newPos},
                          IF historyHas(nextHistory, newPos) = 0
                          THEN Append(nextHistory, [pos |-> newPos, count |-> newCount])
                          ELSE nextHistory,
                          IF isConsistentCount(newCount)
                          THEN consistent \cup {newPos} ELSE consistent)

\* the elements of a set of numbers in ascending order
RECURSIVE Ascending(_)
Ascending(S) == IF S = {} THEN <<>> ELSE <<Min(S)>> \o Ascending(S \ {Min(S)})

\* SignalTracker.updateAndGetConsistentIndices of the web server
webConsistentIndices(h, values) ==
    LET m == matchHistory(h, peaksOf(values, SIGNAL_THRESHOLD), <<>>, {})
        fresh == SelectSeq(Ascending(m.currentPeaks),
                           LAMBDA newPos : historyHas(m.nextHistory, newPos) = 0)
    IN  [history |-> m.nextHistory \o [n \in DOMAIN fresh |-> [pos |-> fresh[n], count |-> 1]],
         consistentIndices |-> m.consistentIndices]

\* SignalTracker.updateAndGetConsistentIndices of the table console: the peaks
\* of the newest frame that every earlier frame of the full buffer has a peak
\* next to
bufferConsistentIndices(buf, currentValues) ==
    LET pushed == Append(buf, peaksOf(currentValues, THRESHOLD))
        next == IF Len(pushed) > CONSISTENCY_SAMPLES THEN Tail(pushed) ELSE pushed
    IN  [buffer |-> next,
         consistentIndices |->
            IF Len(next) < CONSISTENCY_SAMPLES THEN {}
            ELSE {index \in next[Len(next)] :
                    \A i \in 1..(Len(next) - 1) :
                        \E pIdx \in next[i] :
                            /\ pIdx >= Max2(0, index - POSITION_TOLERANCE)
                            /\ pIdx <= Min2(Len(currentValues) - 1, index + POSITION_TOLERANCE)}]

\* calculateNoiseFloor of the web server and of the table console:
\* Math.round of the mean of the tail
webNoiseFloor(values) ==
    IF Len(values) - WEB_NOISE_FLOOR_RANGE < 0 THEN 0
    ELSE (2 * SumSeq(LastN(values, WEB_NOISE_FLOOR_RANGE)) + WEB_NOISE_FLOOR_RANGE)
             \div (2 * WEB_NOISE_FLOOR_RANGE)

\* findBlindZoneEnd of the web server
webBlindZoneEnd(values, avgTenths) ==
    LET below == {i \in WEB_IGNORE_FIRST_SAMPLES..(WEB_MAX_BZ_SEARCH_SAMPLES - 1) :
                     i < Len(values) /\ values[i + 1] * 10 < avgTenths}
    IN  IF below = {} THEN WEB_MAX_BZ_SEARCH_SAMPLES ELSE Min(below) - 1

\* the end of the pulse that starts at start: the first sample below the
\* threshold, or the last sample of the frame
pulseEnd(values, start, detectionThreshold) ==
    LET below == {j \in start..(Len(values) - 1) : values[j + 1] < detectionThreshold}
    IN  IF below = {} THEN Len(values) - 1 ELSE Min(below)

\* a pulse search that resumes right behind the pulse
pulseEndLessSeparation(values, start, detectionThreshold) ==
    pulseEnd(values, start, detectionThreshold) - MIN_SIGNAL_SEPARATION

\* let lastPulseEnd after the pulse that starts at start
nextLastPulseEnd(values, start, detectionThreshold) ==
    pulseEnd(values, start, detectionThreshold)

\* the for loop of extractSignalIndices from index i on
RECURSIVE scanSignals(_, _, _, _, _, _)
scanSignals(values, consistent, detectionThreshold, i, lastPulseEnd, detectedSignals) ==
    IF i >= Len(values) THEN detectedSignals
    ELSE IF i < lastPulseEnd + MIN_SIGNAL_SEPARATION
    THEN scanSignals(values, consistent, detectionThreshold, i + 1, lastPulseEnd,
                     detectedSignals)
    ELSE IF i \in consistent /\ values[i + 1] >= detectionThreshold
    THEN LET currentPulseEnd == pulseEnd(values, i, detectionThreshold)
             found == Append(detectedSignals, [index |-> i, amplitude |-> values[i + 1]])
         IN  IF Len(found) = NUM_SIGNALS THEN found
             ELSE scanSignals(values, consistent, detectionThreshold,
                              currentPulseEnd + 1,
                              nextLastPulseEnd(values, i, detectionThreshold), found)
    ELSE scanSignals(values, consistent, detectionThreshold, i + 1, lastPulseEnd,
                     detectedSignals)

\* extractSignalIndices(values, consistentIndices[, detectionThreshold]): the
\* pulses found, padded with { index: -1, amplitude: -1 } to NUM_SIGNALS entries
extractSignalIndices(values, consistent, detectionThreshold) ==
    LET found == scanSignals(values, consistent, detectionThreshold, 0, -1, <<>>)
    IN  found \o [n \in 1..(NUM_SIGNALS - Len(found)) |-> [index |-> -1, amplitude |-> -1]]

\* the frames of the web server and of the table console: strong echoes at up
\* to two places, silence elsewhere, and a tail at the level of the noise
WebFrames ==
    { [i \in 1..(WebEchoSamples + WEB_NOISE_FLOOR_RANGE) |->
          IF i > WebEchoSamples THEN NoiseLevel
          ELSE IF (i - 1) \in places THEN StrongEcho ELSE 0] :
        places \in {P \in SUBSET (0..(WebEchoSamples - 1)) : Cardinality(P) <= 2} }

\* one turn of the while loop of port.on('data') of initSerialPort (web server):
\* dataToSend goes to the WebSocket clients
WebFramePacket(values) ==
    /\ tracker = "web"
    /\ packetcounter < MaxWebFrames
    /\ LET avg == averagerUpdate(noiseAverager, webNoiseFloor(values))
           runningNoiseAvgValue == runningAverageTenths(avg)
           runningStdDevValue == standardDeviationTenths(avg)
           blindZoneIndexEnd == webBlindZoneEnd(values, runningNoiseAvgValue)
           result == webConsistentIndices(history, values)
           detectedSignals == extractSignalIndices(values, result.consistentIndices,
                                                   SIGNAL_THRESHOLD)
       IN  /\ noiseAverager' = avg
           /\ history' = result.history
           /\ consistentIndices' = result.consistentIndices
           /\ webOut' = [frame |-> packetcounter + 1,
                         signals |-> [n \in DOMAIN detectedSignals |-> detectedSignals[n].index],
                         noiseAvg |-> runningNoiseAvgValue,
                         stdDev |-> runningStdDevValue,
                         threshold |-> runningNoiseAvgValue + runningStdDevValue,
                         blindZoneEnd |-> blindZoneIndexEnd]
    /\ packetcounter' = packetcounter + 1
    /\ frameLog' = Append(frameLog, values)
    /\ lastOp' = "web_frame"
    /\ UNCHANGED <<tracker, issuedIds, quietFrames, persistVars, kalmanVars, peakBuffer,
                   extractVars, callVars, pipeVars>>
    /\ UNCHANGED <<reasmVars, fusionVars, linkVars>>

\* NoiseFloorAverager.update of the table console: totalSum and frameCount
tableAveragerUpdate(avg, noiseFloorValue) ==
    [avg EXCEPT !.count = avg.count + 1,
                !.sum = avg.sum + noiseFloorValue,
                !.min = IF avg.count = 0 THEN noiseFloorValue ELSE Min2(avg.min, noiseFloorValue),
                !.max = IF avg.count = 0 THEN noiseFloorValue ELSE Max2(avg.max, noiseFloorValue)]

\* one turn of the while loop of port.on('data') of the table console
TableFramePacket(values) ==
    /\ tracker = "table"
    /\ packetcounter < MaxWebFrames
    /\ LET result == bufferConsistentIndices(peakBuffer, values) IN
        /\ peakBuffer' = result.buffer
        /\ consistentIndices' = result.consistentIndices
    /\ noiseAverager' = tableAveragerUpdate(noiseAverager, webNoiseFloor(values))
    /\ packetcounter' = packetcounter + 1
    /\ frameLog' = Append(frameLog, values)
    /\ lastOp' = "table_frame"
    /\ UNCHANGED <<tracker, issuedIds, quietFrames, persistVars, kalmanVars, history, webOut,
                   extractVars, callVars, pipeVars>>
    /\ UNCHANGED <<reasmVars, fusionVars, linkVars>>

\* extractSignalIndices applied to the frame and the consistent indices at hand
ExtractSignals ==
    /\ extractIn # Null
    /\ extractOut = Null
    /\ extractOut' = extractSignalIndices(extractIn.values, extractIn.consistentIndices,
                                          extractIn.detectionThreshold)
    /\ lastOp' = "extract"
    /\ UNCHANGED <<tracker, issuedIds, quietFrames, persistVars, kalmanVars, consoleVars,
                   webVars, extractIn, callVars, pipeVars>>
    /\ UNCHANGED <<reasmVars, fusionVars, linkVars>>

\* the trackers of the consoles before the first frame
TrackerStart ==
    /\ persistentSignals = <<>>
    /\ pointIndex = 0
    /\ issuedIds = <<>>
    /\ quietFrames = 0
    /\ persistenceAtQuiet = 0
    /\ primaryValue = 0
    /\ blindZoneEnd = 0
    /\ tracks = <<>>
    /\ nextSignalID = 0
    /\ noiseAverager = [count |-> 0, runningNoiseAvg |-> RatInt(0), sum |-> 0, sumSq |-> 0,
                        min |-> 0, max |-> 0]
    /\ packetcounter = 0
    /\ kalmanOut = Null
    /\ history = <<>>
    /\ peakBuffer = <<>>
    /\ consistentIndices = {}
    /\ webOut = Null
    /\ frameLog = <<>>

\* no call of extractSignalIndices is under study
\* gpspipe writes nothing
PipeIdle ==
    /\ gpsOut = <<>>
    /\ gpsOutPos = 0
    /\ parsedLines = <<>>

ExtractIdle ==
    /\ extractIn = Null
    /\ extractOut = Null
    /\ callIn = Null
    /\ callOut = Null
    /\ PipeIdle

\* no console is running
SignalIdle ==
    /\ tracker = "none"
    /\ TrackerStart
    /\ ExtractIdle

-----------------------------------------------------------------------------
(* Specification of the fusion stage *)

\* new Date() when the server starts, in ms
StartTime == 100000

FusionStart ==
    /\ now = StartTime
    /\ lastSmoothedDistance = Null
    /\ lastDbWriteTimestamp = 0
    /\ collectedSonarData = <<>>
    /\ currentGpsData = [lat |-> Null, lon |-> Null, initialized |-> FALSE]
    /\ rawWsOut = <<>>
    /\ sonarPending = <<>>
    /\ sonarAttempts = <<>>
    /\ sonarRows = {}
    /\ gh = [h \in 1..MaxHandlers |-> IdleHandler]
    /\ nextLineId = 1
    /\ nFrames = 0
    /\ ioLog = <<>>
    /\ gpsPoints = <<>>

GpsChunks == UNION {[1..n -> GpsMsgs] : n \in 1..MaxGpsLines}

NextFusion ==
    \/ \E dt \in TimeSteps, refl \in Reflections :
          nFrames < MaxFrames /\ ProcessDataPacket(dt, refl)
    \/ \E i \in 1..Len(sonarPending), ok \in BOOLEAN : SonarInsertDone(i, ok)
    \/ \E msgs \in GpsChunks : GpsData(msgs)
    \/ \E h \in 1..MaxHandlers, ok \in BOOLEAN : GpsRawInsertDone(h, ok)
    \/ \E h \in 1..MaxHandlers, ok \in BOOLEAN : GpsPointsInsertDone(h, ok)

-----------------------------------------------------------------------------
(* Specifications of the reassemblers *)

InitReasm ==
    /\ prog \in {"web", "serial"}
    /\ pos = 0
    /\ buffer = <<>>
    /\ isReading = FALSE
    /\ pc = "idle"
    /\ frames = <<>>
    /\ comBuffer = <<>>
    /\ handed = <<>>
    /\ FusionStart
    /\ server = "gps_server"
    /\ LinkStart
    /\ SignalIdle
    /\ lastOp = "init"

NextReasm ==
    \/ \E n \in 1..(Len(stream) - pos) : PortData(n)
    \/ ExtractEnter
    \/ ExtractBody
    \/ ReentrantCall
    \/ \E n \in 1..(Len(stream) - pos) : SerialData(n)

\* the reassembler with a body that may throw
NextGuard ==
    \/ \E n \in 1..(Len(stream) - pos) : PortData(n)
    \/ ExtractEnter
    \/ ExtractBody
    \/ ExtractException

\* arbitrary bytes on the serial link
InitJunk ==
    /\ InitReasm
    /\ stream \in [1..(PACKET_LEN + ExtraBytes) -> ByteVals]
    /\ sentFrames = <<>>

SpecJunk == InitJunk /\ [][NextReasm]_vars

InitGuard ==
    /\ InitJunk
    /\ prog = "web"

SpecGuard == InitGuard /\ [][NextGuard]_vars

\* a run of valid packets, one after the other
InitRoundTrip ==
    /\ InitReasm
    /\ \E fs \in FrameRuns :
        /\ stream = SerializeAll(fs)
        /\ sentFrames = ValuesOf(fs)

SpecRoundTrip == InitRoundTrip /\ [][NextReasm]_vars

\* [valid frame A][0xAA][JunkLen bytes including a stray 0xAA][valid frame B]
InitResync ==
    /\ InitReasm
    /\ \E a \in TestFrames, b \in TestFrames, junk \in [1..JunkLen -> JunkVals] :
        /\ \E i \in 1..JunkLen : junk[i] = PACKET_HEADER
        /\ stream = Serialize(a) \o <<PACKET_HEADER>> \o junk \o Serialize(b)
        /\ sentFrames = <<a.values, b.values>>

SpecResync == InitResync /\ [][NextReasm]_vars

\* all of the stream has been delivered and the reader has finished with it
Drained == pos = Len(stream) /\ pc = "idle"

-----------------------------------------------------------------------------
(* The fused server with its serial link idle: frames arrive as calls of
   processDataPacket, gpspipe lines as stdout chunks *)

\* the server has started and its serial link is silent
ServerIdle ==
    /\ prog = "serial"
    /\ stream = <<>>
    /\ sentFrames = <<>>
    /\ pos = 0
    /\ buffer = <<>>
    /\ isReading = FALSE
    /\ pc = "idle"
    /\ frames = <<>>
    /\ comBuffer = <<>>
    /\ handed = <<>>
    /\ FusionStart
    /\ server = "gps_server"
    /\ LinkStart

InitFusion ==
    /\ ServerIdle
    /\ SignalIdle
    /\ lastOp = "init"

Spec == InitFusion /\ [][NextFusion]_vars

-----------------------------------------------------------------------------
(* gps_server.js: the text of gpspipe as it reaches the data callback *)

\* lines gpspipe writes in a run
MaxPipeLines == 2

Newline == "\n"

\* the reports gpspipe -w writes, token by token: an object with its class
\* and, for a TPV report, its mode
FixText == <<"{", "TPV", "3", "}">>

NoFixText == <<"{", "TPV", "1", "}">>

SkyText == <<"{", "SKY", "}">>

PipeTexts == {FixText, NoFixText, SkyText}

\* what JSON.parse returns for the reports
FixMsg == [class |-> "TPV", mode |-> 3, lat |-> Dec(445, 1), lon |-> Dec(1000000004, 9)]

NoFixMsg == [class |-> "TPV", mode |-> 1, lat |-> Null, lon |-> Null]

SkyMsg == [class |-> "SKY", mode |-> 0, lat |-> Null, lon |-> Null]

\* a string or a number on its own is JSON as well: a value without a class
ScalarMsg == [class |-> "scalar", mode |-> 0, lat |-> Null, lon |-> Null]

\* the text JSON.parse throws on
Unparsable == [class |-> "garbage", mode |-> 0, lat |-> Null, lon |-> Null]

\* const msg = JSON.parse(line)
ParseJson(line) ==
    IF line = FixText THEN FixMsg
    ELSE IF line = NoFixText THEN NoFixMsg
    ELSE IF line = SkyText THEN SkyMsg
    ELSE IF Len(line) = 1 /\ line[1] \notin {"{", "}"} THEN ScalarMsg
    ELSE Unparsable

\* the output of gpspipe: every line ends with a newline
RECURSIVE PipeOutput(_)
PipeOutput(texts) ==
    IF texts = <<>> THEN <<>>
    ELSE Head(texts) \o <<Newline>> \o PipeOutput(Tail(texts))

\* data.toString().split("\n").filter(Boolean), with the piece read so far
RECURSIVE SplitLines(_, _)
SplitLines(text, piece) ==
    LET done == IF piece = <<>> THEN <<>> ELSE <<piece>> IN
    IF text = <<>> THEN done
    ELSE IF Head(text) = Newline THEN done \o SplitLines(Tail(text), <<>>)
    ELSE SplitLines(Tail(text), Append(piece, Head(text)))

\* the lines gpspipe has written
RECURSIVE WrittenLines(_, _)
WrittenLines(text, piece) ==
    IF text = <<>> THEN <<>>
    ELSE IF Head(text) = Newline THEN <<piece>> \o WrittenLines(Tail(text), <<>>)
    ELSE WrittenLines(Tail(text), Append(piece, Head(text)))

\* gpsd.stdout.on("data", async (data) => ...): the next n tokens of the
\* output arrive as one chunk
GpsPipeData(n) ==
    /\ serverUp
    /\ gpsOutPos + n <= Len(gpsOut)
    /\ \E lines \in {SplitLines(SubSeq(gpsOut, gpsOutPos + 1, gpsOutPos + n), <<>>)} :
       \E h \in 1..MaxHandlers :
        /\ gh[h].pc = "idle"
        /\ \A k \in 1..(h - 1) : gh[k].pc # "idle"
        /\ gh' = [gh EXCEPT ![h] = RunToRawInsert(
                    [i \in 1..Len(lines) |->
                        [id |-> nextLineId + i - 1, msg |-> ParseJson(lines[i])]])]
        /\ nextLineId' = nextLineId + Len(lines)
        /\ parsedLines' = parsedLines \o
              SelectSeq([i \in 1..Len(lines) |-> ParseJson(lines[i])],
                        LAMBDA m : m # Unparsable)
    /\ gpsOutPos' = gpsOutPos + n
    /\ lastOp' = "gps_data"
    /\ UNCHANGED <<now, lastSmoothedDistance, lastDbWriteTimestamp, collectedSonarData,
                   currentGpsData, rawWsOut, sonarPending, sonarAttempts, sonarRows,
                   nFrames, ioLog, gpsPoints>>
    /\ UNCHANGED reasmVars
    /\ UNCHANGED linkVars
    /\ UNCHANGED <<tracker, issuedIds, quietFrames, persistVars, kalmanVars, consoleVars,
                   webVars, extractVars, callVars, gpsOut>>

InitPipe ==
    /\ ServerIdle
    /\ tracker = "none"
    /\ TrackerStart
    /\ extractIn = Null
    /\ extractOut = Null
    /\ callIn = Null
    /\ callOut = Null
    /\ \E texts \in UNION {[1..k -> PipeTexts] : k \in 1..MaxPipeLines} :
          gpsOut = PipeOutput(texts)
    /\ gpsOutPos = 0
    /\ parsedLines = <<>>
    /\ lastOp = "init"

NextPipe ==
    \/ \E n \in 1..(Len(gpsOut) - gpsOutPos) : GpsPipeData(n)
    \/ \E h \in 1..MaxHandlers, ok \in BOOLEAN : GpsRawInsertDone(h, ok)
    \/ \E h \in 1..MaxHandlers, ok \in BOOLEAN : GpsPointsInsertDone(h, ok)

SpecPipe == InitPipe /\ [][NextPipe]_vars

-----------------------------------------------------------------------------
(* The fusion stage with a fix at hand and frames arriving at a fixed rate *)

\* frames per DB_WRITE_INTERVAL_MS (20 fps makes 60)
FramesPerInterval == 3

\* ms between two frames
FramePeriodMs == DB_WRITE_INTERVAL_MS \div FramesPerInterval

\* frames of a steady run
MaxSteadyFrames == 7

\* the frames of a steady run: the same echo, strong or below the emit threshold
SteadyReflections ==
    { [value |-> 300, index |-> 1], [value |-> 40, index |-> 1] }

\* the fix the server holds when the run starts
FirstFix == CHOOSE m \in GpsMsgs : m.class = "TPV" /\ m.mode >= 2

\* the fix line is handled first; the frames start once the fix is taken over
NextSteady ==
    \/ \E refl \in SteadyReflections :
          /\ currentGpsData.initialized
          /\ nFrames < MaxSteadyFrames
          /\ ProcessDataPacket(FramePeriodMs, refl)
    \/ \E i \in 1..Len(sonarPending), ok \in BOOLEAN : SonarInsertDone(i, ok)
    \/ \E msgs \in {<<FirstFix>>} : nFrames = 0 /\ GpsData(msgs)
    \/ \E h \in 1..MaxHandlers : nFrames = 0 /\ GpsRawInsertDone(h, TRUE)
    \/ \E h \in 1..MaxHandlers : nFrames = 0 /\ GpsPointsInsertDone(h, TRUE)

SpecSteady == InitFusion /\ [][NextSteady]_vars

-----------------------------------------------------------------------------
(* The supervision of the gpspipe child and of the serial port, for both servers *)

InitLinks ==
    /\ prog = "serial"
    /\ stream = <<>>
    /\ sentFrames = <<>>
    /\ pos = 0
    /\ buffer = <<>>
    /\ isReading = FALSE
    /\ pc = "idle"
    /\ frames = <<>>
    /\ comBuffer = <<>>
    /\ handed = <<>>
    /\ FusionStart
    /\ server \in {"gps_server", "gps_server_old"}
    /\ LinkStart
    /\ SignalIdle
    /\ lastOp = "init"

SpecLinks == InitLinks /\ [][NextLinks]_vars

-----------------------------------------------------------------------------
(* The consoles that track echoes from frame to frame *)

InitTrackers ==
    /\ ServerIdle
    /\ tracker \in {"persistence", "kalman"}
    /\ TrackerStart
    /\ ExtractIdle
    /\ lastOp = "init"

\* the noise in the tail of the frames of a run stays at one level
NextTrackers ==
    \/ \E samples \in TrackFrames : TrackFrame(samples)
    \/ \E places \in KalmanEchoPlaces, level \in {0, NoiseLevel} :
          /\ noiseAverager.count = 0 \/ level = noiseAverager.max
          /\ KalmanFramePacket(KalmanFrame(places, level))

SpecTrackers == InitTrackers /\ [][NextTrackers]_vars

-----------------------------------------------------------------------------
(* Claims about the reassemblers *)

IsPrefix(p, q) == Len(p) <= Len(q) /\ SubSeq(q, 1, Len(p)) = p

RawSamplesOf(calls) == [i \in 1..Len(calls) |-> calls[i].rawSamples]

\* C1: every frame serialBufferHandler hands to processDataPacket comes from a
\* PACKET_LEN-byte packet whose payload XOR equals its last byte and carries
\* NUM_SAMPLES samples; a packet with a bad checksum is never processed.
C1_HandedFramesPassChecksum ==
    \A i \in 1..Len(handed) :
        /\ Len(handed[i].packet) = PACKET_LEN
        /\ Len(handed[i].rawSamples) = NUM_SAMPLES
        /\ XorOk(handed[i].packet)

\* C2: fed a run of valid packets split at arbitrary chunk boundaries, a reassembler
\* emits exactly the frames of the packets delivered in full so far, in order and
\* with their samples, and nothing else; when the stream is drained it has emitted
\* all of them.
C2_RoundTrip ==
    /\ prog = "web" =>
        /\ IsPrefix(frames, sentFrames)
        /\ pc = "idle" => frames = SubSeq(sentFrames, 1, pos \div PACKET_LEN)
    /\ prog = "serial" =>
        RawSamplesOf(handed) = SubSeq(sentFrames, 1, pos \div PACKET_LEN)

C2_Witness ==
    /\ prog = "web"
    /\ Drained
    /\ Len(frames) >= 2
    /\ frames = sentFrames
    /\ frames[1] # frames[2]
    /\ \E i \in 1..NUM_SAMPLES : frames[2][i] = 256 * PACKET_HEADER

\* the 0xAA bytes of the resync stream that lie after frame A and before frame B
FalseHeaders ==
    {q \in (PACKET_LEN + 1)..(PACKET_LEN + 1 + JunkLen) : stream[q] = PACKET_HEADER}

\* no PACKET_LEN-byte window that starts at one of them passes the checksum
NoFalsePacket ==
    \A q \in FalseHeaders : ~XorOk(SubSeq(stream, q, q + PACKET_LEN - 1))

\* C3 as stated: for every choice of the junk bytes the reassembler has emitted
\* exactly A and then B once [A][0xAA][junk][B] is drained.
C3_ResyncForEveryJunk ==
    (prog = "web" /\ Drained) => frames = sentFrames

\* C3 as amended: the same, for every choice of the junk bytes in which no window
\* starting at a 0xAA ahead of frame B happens to pass the XOR checksum; the junk
\* is then discarded and nothing is left in the buffer.
C3_ResyncUnlessFalsePacket ==
    (prog = "web" /\ Drained /\ NoFalsePacket) =>
        (frames = sentFrames /\ buffer = <<>>)

C3_Witness ==
    /\ prog = "web"
    /\ Drained
    /\ NoFalsePacket
    /\ Cardinality(FalseHeaders) >= 2
    /\ frames = sentFrames
    /\ lastOp = "null"

\* the 1-based place of the first 0xAA of buf, 0 when there is none
FirstHeaderByte(buf) ==
    IF \E i \in 1..Len(buf) : buf[i] = PACKET_HEADER
    THEN Min({i \in 1..Len(buf) : buf[i] = PACKET_HEADER})
    ELSE 0

\* C4: a checksum mismatch removes from the buffer exactly the bytes up to and
\* including the first header byte, keeps every byte after it, and retries.
C4_MismatchDropsThroughHeaderOnly ==
    [][lastOp' = "mismatch" =>
        /\ FirstHeaderByte(buffer) > 0
        /\ buffer' = SubSeq(buffer, FirstHeaderByte(buffer) + 1, Len(buffer))
        /\ pc' = "enter"]_vars

C4_Witness ==
    /\ lastOp = "mismatch"
    /\ Len(buffer) >= PACKET_LEN
    /\ FirstHeaderByte(buffer) > 1

\* C5: whenever extractAndProcessPacket has returned null to the data handler, the
\* bytes before the first 0xAA are gone and fewer than PACKET_LEN bytes are buffered.
C5_NullLeavesNoJunk ==
    (prog = "web" /\ pc = "idle" /\ lastOp \in {"null", "locked_out"}) =>
        /\ Len(buffer) < PACKET_LEN
        /\ buffer # <<>> => buffer[1] = PACKET_HEADER

\* C6: an invocation of extractAndProcessPacket that begins while another one is in
\* progress finds isReading set and returns null, leaving the byte buffer and the
\* guard as they were.
C6_ReentryRejected ==
    [][lastOp' \in {"reentry_null", "reentry_ran"} =>
        /\ isReading
        /\ lastOp' = "reentry_null"
        /\ buffer' = buffer
        /\ isReading' = isReading]_vars

C6_Witness ==
    /\ lastOp = "reentry_null"
    /\ isReading
    /\ pc = "body"
    /\ FindHeader(buffer) >= 0

-----------------------------------------------------------------------------
(* Claims about the fusion stage *)

\* the sonar_batch payload the claim describes for the records in collected
ProjectedBatch(collected) ==
    [i \in 1..Len(collected) |->
        [time |-> [iso |-> collected[i].timestamp],
         depth_cm |-> collected[i].smoothedDistance,
         lat |-> collected[i].gps.lat,
         lon |-> collected[i].gps.lon]]

\* this step emits a sonar_batch event
EmitsSonarBatch ==
    \E k \in (Len(ioLog) + 1)..Len(ioLog') : ioLog'[k].ev = "sonar_batch"

\* C7: a step either keeps every record of the fusion buffer, in place, or is the
\* GPS-gated batch emit, which empties it; the sonar_readings write, answered or
\* failed, removes nothing.
C7_OnlyBatchEmitDrains ==
    [][\/ IsPrefix(collectedSonarData, collectedSonarData')
       \/ (EmitsSonarBatch /\ collectedSonarData' = <<>>)]_vars

C7_Witness ==
    /\ lastOp \in {"sonar_insert_ok", "sonar_insert_failed"}
    /\ Len(collectedSonarData) >= 2
    /\ sonarRows # {}

\* C8: when the gps_points insert of an accepted fix is stored while the fusion
\* buffer holds n >= 1 records, that step emits exactly one sonar_batch event, with
\* every buffered record in append order projected to {time, depth_cm, lat, lon},
\* then the gps event, and leaves the buffer empty.
C8_FixEmitsWholeBatch ==
    [][(Len(gpsPoints') = Len(gpsPoints) + 1 /\ collectedSonarData # <<>>) =>
        /\ Len(ioLog') = Len(ioLog) + 2
        /\ SubSeq(ioLog', 1, Len(ioLog)) = ioLog
        /\ ioLog'[Len(ioLog) + 1] =
              [ev |-> "sonar_batch", batch |-> ProjectedBatch(collectedSonarData)]
        /\ ioLog'[Len(ioLog) + 2].ev = "gps"
        /\ collectedSonarData' = <<>>]_vars

C8_Witness ==
    /\ lastOp = "gps_fix_batch"
    /\ collectedSonarData = <<>>
    /\ \E k \in 1..Len(ioLog) :
        /\ ioLog[k].ev = "sonar_batch"
        /\ Len(ioLog[k].batch) >= 2
        /\ ioLog[k].batch[1].lat = Null
        /\ ioLog[k].batch[2].lat # Null

\* the cap of the fusion buffer (the spec suggests 1024 records)
FusionCap == 2

\* C9: the fusion buffer never holds more than FusionCap records.
C9_BufferCapped == Len(collectedSonarData) <= FusionCap

\* C10: any two sonar_readings insert attempts are triggered by frames whose
\* timestamps are at least DB_WRITE_INTERVAL_MS apart.
C10_InsertsSpaced ==
    \A i, j \in 1..Len(sonarAttempts) :
        i < j => sonarAttempts[j] - sonarAttempts[i] >= DB_WRITE_INTERVAL_MS

C10_Witness ==
    /\ Len(sonarAttempts) = 2
    /\ sonarAttempts[2] - sonarAttempts[1] = DB_WRITE_INTERVAL_MS
    /\ Len(collectedSonarData) = 3

\* the sonar_batch events emitted so far
SonarBatches == {k \in 1..Len(ioLog) : ioLog[k].ev = "sonar_batch"}

\* the sonar_readings rows handed to the database so far, stored or in flight
RowsWritten == sonarRows \cup {sonarPending[i] : i \in 1..Len(sonarPending)}

\* C11: as long as no valid fix has been taken over, no sonar_readings insert has
\* been attempted, no row is stored and no sonar_batch event has been emitted,
\* however many frames were processed; and every row ever written carries the
\* non-null latitude and longitude of the GPS snapshot of its record.
C11_NoRowsBeforeFix ==
    /\ ~currentGpsData.initialized =>
          (sonarAttempts = <<>> /\ RowsWritten = {} /\ SonarBatches = {})
    /\ \A r \in RowsWritten : r.latitude # Null /\ r.longitude # Null

C11_Witness ==
    /\ ~currentGpsData.initialized
    /\ lastOp = "frame_nogps"
    /\ nFrames = MaxFrames
    /\ Len(collectedSonarData) >= 2
    /\ now - lastDbWriteTimestamp >= DB_WRITE_INTERVAL_MS
    /\ \E h \in 1..MaxHandlers : gh[h].pc = "awaitRaw"

\* the gps_points row of line id is stored
PointStored(id) == \E j \in 1..Len(gpsPoints) : gpsPoints[j].id = id

\* C12: every gps event emitted belongs to a fix whose gps_points row is already
\* stored, and every sonar_batch event is followed at once by the gps event of the
\* fix that flushed the buffer: no telemetry of a fix is emitted ahead of the
\* acknowledgement of its gps_points insert.
C12_PointsStoredBeforeEmit ==
    \A k \in 1..Len(ioLog) :
        /\ ioLog[k].ev = "gps" => PointStored(ioLog[k].id)
        /\ ioLog[k].ev = "sonar_batch" =>
              (k < Len(ioLog) /\ ioLog[k + 1].ev = "gps" /\ PointStored(ioLog[k + 1].id))

C12_Witness ==
    /\ lastOp = "gps_fix_batch"
    /\ Len(gpsPoints) = 1
    /\ gpsPoints[1].id = 2
    /\ \E k \in 1..Len(ioLog) : ioLog[k].ev = "gps" /\ ioLog[k].id = 2
    /\ currentGpsData.initialized

\* the gps events this step emits
NewGpsEvents == {k \in (Len(ioLog) + 1)..Len(ioLog') : ioLog'[k].ev = "gps"}

\* lastSmoothedDistance in metres, 0 while there is none
LatestDepthMetres ==
    DecShift(IF lastSmoothedDistance # Null THEN lastSmoothedDistance ELSE DecInt(0), 2)

\* C13: every gps event carries, as depth_m, the smoothed depth of the latest frame
\* processed before the event is emitted, in metres, whatever ran while the handler
\* of the fix awaited the database.
C13_DepthIsLatestAtEmit ==
    [][\A k \in NewGpsEvents : ioLog'[k].depth_m = LatestDepthMetres]_vars

\* msg is a TPV report with a fix: mode >= 2 and both coordinates
IsFix(msg) == msg.class = "TPV" /\ msg.mode >= 2 /\ msg.lat # Null /\ msg.lon # Null

\* this step emits the gps event of line id
EmitsGpsEvent(id) == \E k \in NewGpsEvents : ioLog'[k].id = id

\* C14: when the gps_raw or the gps_points insert of a fix fails, the step that
\* handles the failure still leaves the fix in the live GPS snapshot, emits and
\* clears the buffered sonar batch, and emits the gps event of that fix.
C14_FailedInsertKeepsPipeline ==
    [][\A h \in 1..MaxHandlers :
          (/\ lastOp' \in {"gps_raw_failed", "gps_points_failed"}
           /\ gh'[h] # gh[h]
           /\ IsFix(Head(gh[h].lines).msg)) =>
             /\ currentGpsData' = [lat |-> Head(gh[h].lines).msg.lat,
                                   lon |-> Head(gh[h].lines).msg.lon,
                                   initialized |-> TRUE]
             /\ EmitsGpsEvent(Head(gh[h].lines).id)
             /\ collectedSonarData # <<>> =>
                   (EmitsSonarBatch /\ collectedSonarData' = <<>>)]_vars

\* C15: the step that handles a failed sonar_readings insert stores nothing, drops
\* the row without queueing it again, and leaves the fusion buffer, the throttle
\* timestamp and the list of attempts alone; and every step that starts an insert
\* does so for a frame at least DB_WRITE_INTERVAL_MS after every earlier attempt,
\* failed or not, with the row of that frame and of no other.
C15_FailedSonarInsertDropped ==
    [][/\ lastOp' = "sonar_insert_failed" =>
            /\ sonarRows' = sonarRows
            /\ Len(sonarPending') = Len(sonarPending) - 1
            /\ \A i \in 1..Len(sonarPending') :
                  \E j \in 1..Len(sonarPending) : sonarPending'[i] = sonarPending[j]
            /\ collectedSonarData' = collectedSonarData
            /\ lastDbWriteTimestamp' = lastDbWriteTimestamp
            /\ sonarAttempts' = sonarAttempts
       /\ sonarAttempts' # sonarAttempts =>
            /\ sonarAttempts' = Append(sonarAttempts, now')
            /\ \A i \in 1..Len(sonarAttempts) :
                  now' - sonarAttempts[i] >= DB_WRITE_INTERVAL_MS
            /\ Len(sonarPending') = Len(sonarPending) + 1
            /\ sonarPending'[Len(sonarPending')].timestamp = now'
            /\ Len(collectedSonarData') = Len(collectedSonarData) + 1]_vars

\* an insert failed, frames went on being collected, and the next attempt came
C15_Witness ==
    /\ lastOp = "frame_insert"
    /\ Len(sonarAttempts) = 2
    /\ sonarRows = {}
    /\ Len(sonarPending) = 1
    /\ sonarPending[1].timestamp = sonarAttempts[2]
    /\ Len(collectedSonarData) = MaxFrames

-----------------------------------------------------------------------------
(* Claims about the supervision of the links *)

GpsTimers == {t \in timers : t.fn = "startGpsPipe"}

SonarReopenScheduled == \E t \in timers : t.fn = "startSonarPort"

\* C17: the process is alive, and whenever the serial port is not open after an
\* error or a close, a re-attempt to open it is pending.
C17_SerialPortReopens ==
    /\ serverUp
    /\ sonarPort # "open" => SonarReopenScheduled

-----------------------------------------------------------------------------
(* Claims about the records of processDataPacket *)

\* x clamped into [0, hi]
Clamp(x, hi) == IF x < 0 THEN 0 ELSE IF x > hi THEN hi ELSE x

\* the last step processed a frame whose peak passed the emit threshold
FramePassed == lastOp' \in {"frame_throw", "frame_throttled", "frame_nogps", "frame_insert"}

\* C18: the step that processes a frame above the emit threshold sends a 3-byte
\* record whose first two bytes are, big-endian, the smoothed distance in mm
\* clamped into [0, 65535], and whose third byte is the peak clamped into [0, 255];
\* the process goes on.
C18_RecordClamped ==
    [][FramePassed =>
        /\ serverUp'
        /\ Len(rawWsOut') = 3
        /\ 256 * rawWsOut'[1] + rawWsOut'[2] =
              Clamp(MathRound(TimesTen(lastSmoothedDistance')), 65535)
        /\ Len(collectedSonarData') = Len(collectedSonarData) + 1
        /\ rawWsOut'[3] =
              Clamp(collectedSonarData'[Len(collectedSonarData')].reflection.value, 255)]_vars

\* the GPS snapshot a record is to carry: the latest fix taken over, null before
GpsSnapshot ==
    IF currentGpsData.initialized
    THEN [lat |-> currentGpsData.lat, lon |-> currentGpsData.lon]
    ELSE [lat |-> Null, lon |-> Null]

\* C19: every step that processes a frame appends exactly one record to the fusion
\* buffer, and the record carries the timestamp of the frame, the smoothed depth
\* and the GPS snapshot.
C19_FrameAppendsRecord ==
    [][nFrames' = nFrames + 1 =>
        /\ Len(collectedSonarData') = Len(collectedSonarData) + 1
        /\ SubSeq(collectedSonarData', 1, Len(collectedSonarData)) = collectedSonarData
        /\ LET rec == collectedSonarData'[Len(collectedSonarData')] IN
              /\ rec.timestamp = now'
              /\ rec.smoothedDistance = lastSmoothedDistance'
              /\ rec.gps = GpsSnapshot]_vars

\* C19 for the frames whose record is sent on the raw channel
C19_SentFrameAppendsRecord ==
    [][lastOp' \in {"frame_throttled", "frame_nogps", "frame_insert"} =>
        /\ Len(collectedSonarData') = Len(collectedSonarData) + 1
        /\ SubSeq(collectedSonarData', 1, Len(collectedSonarData)) = collectedSonarData
        /\ LET rec == collectedSonarData'[Len(collectedSonarData')] IN
              /\ rec.timestamp = now'
              /\ rec.smoothedDistance = lastSmoothedDistance'
              /\ rec.gps = GpsSnapshot]_vars

-----------------------------------------------------------------------------
(* Claims about the throttled persistence at a steady frame rate *)

\* the number of write intervals begun in the time the frames took
CeilIntervals ==
    ((now - StartTime) + DB_WRITE_INTERVAL_MS - 1) \div DB_WRITE_INTERVAL_MS

\* every frame so far passed the emit threshold
AllFramesPassed == Len(collectedSonarData) = nFrames

\* every insert issued so far is stored
AllInsertsStored == Cardinality(sonarRows) = Len(sonarAttempts)

-----------------------------------------------------------------------------
(* The smoother of the depth, fed with one observation after the other *)

\* observations handed to the smoother in one run
MaxObservations == 4

\* the sample indices of the observations: 0 stands for no primary target
ObservedIndices == {0, 1, 2, 5}

\* applyExponentialSmoothing(currentDistance) as processDataPacket calls it, the
\* observation being the distance of sample index
SmoothObservation(index) ==
    /\ nFrames < MaxObservations
    /\ lastSmoothedDistance' = ApplyExponentialSmoothing(DecMul(DecInt(index), SAMPLE_RESOLUTION))
    /\ nFrames' = nFrames + 1
    /\ lastOp' = IF index = 0 THEN "smooth_zero" ELSE "smooth"
    /\ UNCHANGED <<now, lastDbWriteTimestamp, collectedSonarData, currentGpsData, rawWsOut,
                   sonarPending, sonarAttempts, sonarRows, gh, nextLineId, ioLog, gpsPoints>>
    /\ UNCHANGED <<reasmVars, linkVars, sigVars>>

NextSmooth ==
    \/ \E index \in ObservedIndices : SmoothObservation(index)

SpecSmooth == InitFusion /\ [][NextSmooth]_vars

-----------------------------------------------------------------------------
(* The consistency trackers of the web server and of the table console *)

InitConsistency ==
    /\ ServerIdle
    /\ tracker \in {"web", "table"}
    /\ TrackerStart
    /\ ExtractIdle
    /\ lastOp = "init"

NextConsistency ==
    \/ \E values \in WebFrames : WebFramePacket(values)
    \/ \E values \in WebFrames : TableFramePacket(values)

SpecConsistency == InitConsistency /\ [][NextConsistency]_vars

-----------------------------------------------------------------------------
(* extractSignalIndices on the frames and consistent indices it can be given *)

\* samples of a frame handed to extractSignalIndices
ExtractSamples == 6

\* an echo between SIGNAL_THRESHOLD and the raised threshold
WeakEcho == 70

\* a DYNAMIC_THRESHOLD above SIGNAL_THRESHOLD
RaisedThreshold == 80

\* the frames, the consistent indices (peaks of the tracker, so samples of at
\* least SIGNAL_THRESHOLD) and the thresholds of the calls
ExtractInputs ==
    { [values |-> v, consistentIndices |-> c, detectionThreshold |-> t] :
        v \in [1..ExtractSamples -> {0, WeakEcho, StrongEcho}],
        c \in SUBSET (0..(ExtractSamples - 1)),
        t \in {SIGNAL_THRESHOLD, RaisedThreshold} }

InitExtract ==
    /\ ServerIdle
    /\ tracker = "none"
    /\ TrackerStart
    /\ extractIn \in ExtractInputs
    /\ extractIn.consistentIndices \subseteq peaksOf(extractIn.values, SIGNAL_THRESHOLD)
    /\ extractOut = Null
    /\ callIn = Null
    /\ callOut = Null
    /\ PipeIdle
    /\ lastOp = "init"

NextExtract ==
    \/ ExtractSignals

SpecExtract == InitExtract /\ [][NextExtract]_vars

-----------------------------------------------------------------------------
(* The NoiseFloorAverager on its own *)

\* calls of update in one run
MaxUpdates == 6

\* the noise floors fed to the averager
NoiseFloors == {0, 3, 10, 255}

\* noiseAverager.update(currentNoiseFloor)
NoiseFloorUpdate(currentNoiseFloor) ==
    /\ tracker = "averager"
    /\ noiseAverager.count < MaxUpdates
    /\ noiseAverager' = averagerUpdate(noiseAverager, currentNoiseFloor)
    /\ lastOp' = "update"
    /\ UNCHANGED <<tracker, issuedIds, quietFrames, persistVars, kalmanVars, packetcounter,
                   webVars, extractVars, callVars, pipeVars>>
    /\ UNCHANGED <<reasmVars, fusionVars, linkVars>>

InitAverager ==
    /\ ServerIdle
    /\ tracker = "averager"
    /\ TrackerStart
    /\ ExtractIdle
    /\ lastOp = "init"

NextAverager ==
    \/ \E currentNoiseFloor \in NoiseFloors : NoiseFloorUpdate(currentNoiseFloor)

SpecAverager == InitAverager /\ [][NextAverager]_vars

-----------------------------------------------------------------------------
(* The pure functions of the consoles, called on their own *)

\* samples of the frames handed to findBlindZoneEnd: more than its search window
BlindZoneFrameLen == 502

\* the amplitude of the ringing of the transducer
RingValue == 200

\* a frame in which the transducer rings for the first `ringing` samples and
\* the rest is at the level of the noise
RingFrame(ringing, level) ==
    [i \in 1..BlindZoneFrameLen |-> IF i <= ringing THEN RingValue ELSE level]

BlindZoneInputs ==
    { [fn |-> "findBlindZoneEnd", samples |-> RingFrame(ringing, level), noiseFloor |-> level] :
        ringing \in 0..BlindZoneFrameLen, level \in {0, NoiseLevel} }

\* findBlindZoneEnd(samples, noiseFloor) of gps_server.js and of the console
FindBlindZoneEnd ==
    /\ callIn # Null
    /\ callIn.fn = "findBlindZoneEnd"
    /\ callOut = Null
    /\ callOut' = [value |-> trackBlindZoneEnd(callIn.samples,
                                                callIn.noiseFloor * TRACK_NOISE_FLOOR_RANGE)]
    /\ lastOp' = "findBlindZoneEnd"
    /\ UNCHANGED <<tracker, issuedIds, quietFrames, persistVars, kalmanVars, consoleVars,
                   webVars, extractVars, callIn, pipeVars>>
    /\ UNCHANGED <<reasmVars, fusionVars, linkVars>>

\* const CONSOLIDATION_TOLERANCE = 5 of the console
CONSOLE_CONSOLIDATION_TOLERANCE == 5

\* samples of the frames with two pulses
PulseFrameLen == 520

\* the first sample of the first pulse
FirstPulseStart == 500

\* the widths of the pulses and the largest gap between them
MaxPulseWidth == 3
MaxPulseGap == 8

\* the amplitudes of the pulses
PulseLow == 120
PulseHigh == 150

\* a frame with a pulse of amplitude a1 over `width` samples from
\* FirstPulseStart on and a pulse of amplitude a2 and the same width whose first
\* sample is `gap` behind the last sample of the first pulse
PulseFrame(width, gap, a1, a2) ==
    [i \in 1..PulseFrameLen |->
        IF i - 1 \in FirstPulseStart..(FirstPulseStart + width - 1) THEN a1
        ELSE IF i - 1 \in (FirstPulseStart + width - 1 + gap)
                            ..(FirstPulseStart + 2 * width - 2 + gap) THEN a2
        ELSE 0]

PulseInputs ==
    { [fn |-> "consolidate", samples |-> PulseFrame(width, gap, a1, a2),
       tolerance |-> CONSOLE_CONSOLIDATION_TOLERANCE] :
        width \in 1..MaxPulseWidth, gap \in 1..MaxPulseGap,
        a1 \in {PulseLow, PulseHigh}, a2 \in {PulseLow, PulseHigh} }

\* trackAndFilterSignals(samples) up to const finalPeaks = consolidatedPeaks
ConsolidatePeaks ==
    /\ callIn # Null
    /\ callIn.fn = "consolidate"
    /\ callOut = Null
    /\ callOut' = [value |-> consolidatedPeaks(callIn.samples, callIn.tolerance)]
    /\ lastOp' = "consolidate"
    /\ UNCHANGED <<tracker, issuedIds, quietFrames, persistVars, kalmanVars, consoleVars,
                   webVars, extractVars, callIn, pipeVars>>
    /\ UNCHANGED <<reasmVars, fusionVars, linkVars>>

CallInputs == BlindZoneInputs \cup PulseInputs

InitCalls ==
    /\ ServerIdle
    /\ tracker = "none"
    /\ TrackerStart
    /\ extractIn = Null
    /\ extractOut = Null
    /\ callIn \in CallInputs
    /\ callOut = Null
    /\ PipeIdle
    /\ lastOp = "init"

NextCalls ==
    \/ FindBlindZoneEnd
    \/ ConsolidatePeaks

SpecCalls == InitCalls /\ [][NextCalls]_vars

-----------------------------------------------------------------------------
(* The trackers of the consoles *)

\* the order in which ids are handed out: by the frame counter and then the
\* index of the peak within the frame (persistence tracker), by nextSignalID
\* (Kalman tracker)
IdBefore(a, b) == a[1] < b[1] \/ (a[1] = b[1] /\ Len(a) = 2 /\ a[2] < b[2])

\* the ids of the tracks held now
HeldIds ==
    IF tracker = "kalman" THEN {<<tracks[k].id>> : k \in DOMAIN tracks}
    ELSE {persistentSignals[k].id : k \in DOMAIN persistentSignals}

\* C21: track ids are handed out in strictly increasing order and never reused:
\* the id of a new track was never the id of another track, deleted or not, and
\* no two tracks held at the same time share an id
C21_IdsNeverReused ==
    /\ \A i, j \in DOMAIN issuedIds : i < j => IdBefore(issuedIds[i], issuedIds[j])
    /\ HeldIds \subseteq {issuedIds[i] : i \in DOMAIN issuedIds}
    /\ Cardinality(HeldIds) = Len(persistentSignals) + Len(tracks)

\* a track was deleted and a later track was created at the very same index
C21_Witness ==
    /\ tracker = "persistence"
    /\ \E i, j \in DOMAIN issuedIds :
          /\ i < j
          /\ issuedIds[i][2] = issuedIds[j][2]
          /\ issuedIds[i] \notin HeldIds
          /\ issuedIds[j] \in HeldIds

\* C22: the persistence counter of every tracked signal stays within
\* 0 .. PERSISTENCE_THRESHOLD + 5
C22_PersistenceBounded ==
    \A k \in DOMAIN persistentSignals :
        /\ 0 <= persistentSignals[k].persistence
        /\ persistentSignals[k].persistence <= PERSISTENCE_THRESHOLD + PERSISTENCE_HEADROOM

\* a signal matched once more at the ceiling
C22_Witness ==
    /\ lastOp = "track"
    /\ pointIndex > PERSISTENCE_THRESHOLD + PERSISTENCE_HEADROOM
    /\ \E k \in DOMAIN persistentSignals :
          /\ persistentSignals[k].persistence = PERSISTENCE_THRESHOLD + PERSISTENCE_HEADROOM
          /\ persistentSignals[k].id[1] = 0

\* the frames without a peak after which no track is left
QuietFramesBound == PERSISTENCE_THRESHOLD + 2

\* C23: once the frames carry no detection, every track of the persistence
\* tracker is removed within QuietFramesBound frames, and the track set stays
\* empty for as long as the silence lasts
C23_QuietFramesEmptyTracks ==
    (tracker = "persistence" /\ quietFrames >= QuietFramesBound) => persistentSignals = <<>>

\* a signal at the ceiling of its counter was lost to silence
C23_Witness ==
    /\ tracker = "persistence"
    /\ persistenceAtQuiet = PERSISTENCE_THRESHOLD + PERSISTENCE_HEADROOM
    /\ quietFrames = QuietFramesBound
    /\ persistentSignals = <<>>

\* the consecutive frames a Kalman track may go without a measurement
MissBound == 2

\* C24: a track of the Kalman tracker that goes unmatched for more than
\* MissBound consecutive frames is removed, so that after the detections stop
\* the track set becomes empty
C24_UnmatchedTracksRemoved ==
    (tracker = "kalman" /\ quietFrames > MissBound) => tracks = <<>>

\* C30: the detection threshold applied to the samples is never below
\* SIGNAL_THRESHOLD, and no sample below SIGNAL_THRESHOLD is accepted as a peak
C30_ThresholdNotBelowSignalThreshold ==
    (tracker = "kalman" /\ kalmanOut # Null) =>
        /\ kalmanOut.threshold >= 10 * KALMAN_SIGNAL_THRESHOLD
        /\ \A m \in DOMAIN kalmanOut.measurements :
              kalmanOut.measurements[m].amplitude >= KALMAN_SIGNAL_THRESHOLD

\* C29: an observation of zero (no primary target in the frame) leaves the
\* smoothed depth as it was, so the depth is first set by a non-zero observation
C29_ZeroObservationKeepsDepth ==
    [][lastOp' = "smooth_zero" => lastSmoothedDistance' = lastSmoothedDistance]_vars

-----------------------------------------------------------------------------
(* The consistency trackers and the pulse extraction *)

\* the peaks of frame number n of the run
LoggedPeaks(n) == peaksOf(frameLog[n], SIGNAL_THRESHOLD)

\* all frames of the run so far are the same frame, whose only peak is at index k
OnlyPeakSoFar(k) ==
    /\ frameLog # <<>>
    /\ \A n \in DOMAIN frameLog : frameLog[n] = frameLog[1] /\ LoggedPeaks(n) = {k}

\* C25: fed identical frames whose only peak is at index k, a consistency
\* tracker reports nothing on the frames before frame number
\* CONSISTENCY_SAMPLES and exactly the index k on that frame
C25_ConsistentOnLastOfIdenticalFrames ==
    \A k \in 0..(WebEchoSamples - 1) :
        OnlyPeakSoFar(k) =>
            consistentIndices = IF Len(frameLog) < CONSISTENCY_SAMPLES THEN {} ELSE {k}

\* frame number CONSISTENCY_SAMPLES of a run of identical frames with one peak
C25_Witness ==
    /\ tracker = "web"
    /\ OnlyPeakSoFar(2)
    /\ Len(frameLog) = CONSISTENCY_SAMPLES
    /\ consistentIndices = {2}

\* the peaks of the newest frame that each of the CONSISTENCY_SAMPLES - 1
\* frames before it has a peak next to
NearInAllFrames ==
    LET n == Len(frameLog) IN
    IF n < CONSISTENCY_SAMPLES THEN {}
    ELSE {k \in LoggedPeaks(n) :
            \A f \in (n - CONSISTENCY_SAMPLES + 1)..(n - 1) :
                \E q \in LoggedPeaks(f) : Abs(q - k) <= POSITION_TOLERANCE}

\* C26: the web server's tracker reports index k as consistent exactly when k
\* is a peak of the newest frame and each of the CONSISTENCY_SAMPLES - 1 frames
\* before it has a peak within POSITION_TOLERANCE of k
C26_ConsistentIffNearInAllFrames ==
    (tracker = "web" /\ frameLog # <<>>) => consistentIndices = NearInAllFrames

\* the detections of a result of extractSignalIndices that are no padding
IsDetection(d) == d.index # -1

\* C27: two consecutive detections of extractSignalIndices are at least
\* MIN_SIGNAL_SEPARATION apart, counted from the end of the first pulse (its
\* first sample below the threshold) to the start of the second
C27_PulsesSeparated ==
    extractOut # Null =>
        \A n \in 1..(Len(extractOut) - 1) :
            (IsDetection(extractOut[n]) /\ IsDetection(extractOut[n + 1])) =>
                extractOut[n + 1].index
                    - pulseEnd(extractIn.values, extractOut[n].index, extractIn.detectionThreshold)
                  >= MIN_SIGNAL_SEPARATION

\* two pulses, the first wider than one sample, the second as close as allowed
C27_Witness ==
    /\ extractOut # Null
    /\ IsDetection(extractOut[1])
    /\ IsDetection(extractOut[2])
    /\ pulseEnd(extractIn.values, extractOut[1].index, extractIn.detectionThreshold)
          > extractOut[1].index + 1
    /\ extractOut[2].index
          = pulseEnd(extractIn.values, extractOut[1].index, extractIn.detectionThreshold)
            + MIN_SIGNAL_SEPARATION

\* C28: every detection the web server sends starts at or behind the end of
\* the blind zone of its frame
C28_DetectionsBehindBlindZone ==
    (tracker = "web" /\ webOut # Null) =>
        \A n \in DOMAIN webOut.signals :
            webOut.signals[n] # -1 => webOut.signals[n] >= webOut.blindZoneEnd

\* no sample of the search window of findBlindZoneEnd is at or below the
\* threshold noiseFloor * 1.2
NoneBelowInWindow ==
    \A i \in 1..Min2(Len(callIn.samples), BZ_SEARCH_LIMIT) :
        callIn.samples[i] * 10 > callIn.noiseFloor * 12

\* C31: findBlindZoneEnd returns the search limit whenever no sample inside
\* the search window is at or below the threshold
C31_NoneFoundReturnsSearchLimit ==
    (callOut # Null /\ callIn.fn = "findBlindZoneEnd" /\ NoneBelowInWindow)
        => callOut.value = BZ_SEARCH_LIMIT

\* C32: after one or more calls of update the running noise mean lies between
\* the smallest and the largest value fed so far
C32_MeanWithinMinMax ==
    noiseAverager.count > 0 =>
        /\ ~RatLess(noiseAverager.runningNoiseAvg, RatInt(noiseAverager.min))
        /\ ~RatLess(RatInt(noiseAverager.max), noiseAverager.runningNoiseAvg)

\* the mean after several different values lies strictly between them and is
\* no integer
C32_Witness ==
    /\ tracker = "averager"
    /\ noiseAverager.count = MaxUpdates
    /\ noiseAverager.min < noiseAverager.max
    /\ noiseAverager.runningNoiseAvg.d > 1
    /\ RatLess(RatInt(noiseAverager.min), noiseAverager.runningNoiseAvg)
    /\ RatLess(noiseAverager.runningNoiseAvg, RatInt(noiseAverager.max))

\* the samples of the frame of a call that are candidates of a peak
Candidates == {i \in 0..(Len(callIn.samples) - 1) : callIn.samples[i + 1] > VALUE_THRESHOLD}

\* no two neighbouring candidates between a and b are more than the tolerance apart
Chained(a, b) ==
    \A x, y \in Candidates :
        (Min2(a, b) <= x /\ x < y /\ y <= Max2(a, b)
            /\ ~(\E z \in Candidates : x < z /\ z < y))
        => y - x <= callIn.tolerance

\* the frame of the example: samples 500..502 = 120 and 508..510 = 150
IsPulseExample ==
    /\ callIn # Null
    /\ callIn.fn = "consolidate"
    /\ callIn.samples = PulseFrame(3, 6, PulseLow, PulseHigh)
    /\ callOut # Null

\* C33, as stated: the pulses at 500..502 (120) and 508..510 (150) become one
\* detection at index 509 with amplitude 150
C33_ExampleOneDetection ==
    IsPulseExample => callOut.value = <<[index |-> 509, peak |-> 150]>>

\* C33, amended: every detection is a candidate with its own amplitude, and
\* every candidate is chained to exactly one detection, which is at least as
\* strong and, if equally strong, not behind it
C33_GroupsCollapseToFirstStrongest ==
    (callOut # Null /\ callIn.fn = "consolidate") =>
        LET detections == {callOut.value[n].index : n \in DOMAIN callOut.value} IN
        /\ \A n \in DOMAIN callOut.value :
              /\ callOut.value[n].index \in Candidates
              /\ callOut.value[n].peak = callIn.samples[callOut.value[n].index + 1]
        /\ Cardinality(detections) = Len(callOut.value)
        /\ \A c \in Candidates :
              /\ Cardinality({d \in detections : Chained(c, d)}) = 1
              /\ \A d \in detections :
                    Chained(c, d) =>
                        /\ callIn.samples[d + 1] >= callIn.samples[c + 1]
                        /\ callIn.samples[d + 1] = callIn.samples[c + 1] => d <= c

\* the example gives two detections, at the first samples of the two pulses
C33_Witness ==
    /\ IsPulseExample
    /\ callOut.value = <<[index |-> FirstPulseStart, peak |-> PulseLow],
                         [index |-> FirstPulseStart + 8, peak |-> PulseHigh]>>

-----------------------------------------------------------------------------
(* Claims about the interleavings of frames and GPS handlers *)

\* the sonar_batch events emitted so far
BatchEvents == {k \in DOMAIN ioLog : ioLog[k].ev = "sonar_batch"}

\* how often the record of the frame processed at time t was emitted in a batch
TimesBatched(t) ==
    Cardinality({<<k, i>> \in UNION {{k} \X DOMAIN ioLog[k].batch : k \in BatchEvents} :
                    ioLog[k].batch[i].time.iso = t})

\* a record is in no two batches, and a record still buffered is in none
BatchedAtMostOnce ==
    /\ \A k \in BatchEvents : \A i \in DOMAIN ioLog[k].batch :
          TimesBatched(ioLog[k].batch[i].time.iso) = 1
    /\ \A n \in DOMAIN collectedSonarData :
          TimesBatched(collectedSonarData[n].timestamp) = 0

\* every record a step takes out of the buffer is in a batch the step emits
RemovedAreBatched ==
    \A n \in DOMAIN collectedSonarData :
        (\A m \in DOMAIN collectedSonarData' :
            collectedSonarData'[m].timestamp # collectedSonarData[n].timestamp)
        => \E k \in (Len(ioLog) + 1)..Len(ioLog') :
              /\ ioLog'[k].ev = "sonar_batch"
              /\ \E i \in DOMAIN ioLog'[k].batch :
                    ioLog'[k].batch[i].time.iso = collectedSonarData[n].timestamp

\* C34: under every interleaving of frames and fix handlers a record of the
\* fusion buffer is emitted in at most one sonar_batch event, and no record
\* leaves the buffer without being in a batch
C34_RecordsBatchedOnce == [](BatchedAtMostOnce) /\ [][RemovedAreBatched]_vars

\* a batch of two records was emitted by one fix handler while the other was
\* awaiting the insert of its own fix
C34_Witness ==
    /\ lastOp = "gps_fix_batch"
    /\ \E h \in 1..MaxHandlers : gh[h].pc = "awaitPoints"
    /\ \E k \in BatchEvents : Len(ioLog[k].batch) >= 2
    /\ collectedSonarData = <<>>

\* the gps events emitted so far, in the order of their emission
GpsEvents == SelectSeq(ioLog, LAMBDA e : e.ev = "gps")

\* C35: the gps events are emitted, and the gps_points rows stored, in the
\* order in which their fixes arrived from gpspipe
C35_FixesHandledInArrivalOrder ==
    /\ \A j, k \in DOMAIN GpsEvents : j < k => GpsEvents[j].id < GpsEvents[k].id
    /\ \A j, k \in DOMAIN gpsPoints : j < k => gpsPoints[j].id < gpsPoints[k].id

-----------------------------------------------------------------------------
(* Claims about the guard of the reassembler *)

\* C36: isReading is released on every path out of extractAndProcessPacket: it
\* is false whenever no invocation is in progress, and no call of the data
\* loop is ever turned away by the guard
C36_GuardReleasedOnEveryExit ==
    /\ pc # "body" => ~isReading
    /\ lastOp # "locked_out"

\* the body threw with a whole packet in the buffer, and the guard is free
C36_Witness ==
    /\ lastOp = "exception"
    /\ pc = "idle"
    /\ ~isReading
    /\ Len(buffer) >= PACKET_LEN

-----------------------------------------------------------------------------
(* Claims about the association of the Kalman tracker *)

\* the distance between the predicted position of track k and measurement m of
\* the last frame
MatchDistance(k, m) ==
    RatAbs(RatSub(kalmanOut.predictedTracks[k].x, RatInt(kalmanOut.measurements[m].index)))

\* the position among the predicted tracks of the track with this id
TrackNo(id) == CHOOSE k \in DOMAIN kalmanOut.predictedTracks : kalmanOut.predictedTracks[k].id = id

\* C37: a measurement that updates a track updates the predicted track nearest
\* to it, that track is within ASSOCIATION_WINDOW of it, no measurement updates
\* two tracks and no track takes two measurements
C37_NearestTrackAssociation ==
    (tracker = "kalman" /\ kalmanOut # Null) =>
        /\ \A a \in DOMAIN kalmanOut.matches :
              LET k == TrackNo(kalmanOut.matches[a].id)
                  m == kalmanOut.matches[a].m
              IN  /\ ~RatLess(RatInt(ASSOCIATION_WINDOW), MatchDistance(k, m))
                  /\ \A o \in DOMAIN kalmanOut.predictedTracks :
                        ~RatLess(MatchDistance(o, m), MatchDistance(k, m))
        /\ \A a, b \in DOMAIN kalmanOut.matches :
              a # b => /\ kalmanOut.matches[a].m # kalmanOut.matches[b].m
                       /\ kalmanOut.matches[a].id # kalmanOut.matches[b].id

-----------------------------------------------------------------------------
(* Claims about the decay of the persistence tracker *)

\* the signals of the next state that carry the id of the signal s
Successors(s) ==
    {j \in DOMAIN persistentSignals' : persistentSignals'[j].id = s.id}

\* the persistence left to the signal s by a frame that does not match it
AfterMiss(s) ==
    s.persistence - (IF s.persistence > PERSISTENCE_THRESHOLD THEN 2 ELSE 1)

\* the frame leaves the signal s matched (its counter does not fall), or
\* decayed by its rate, or destroyed because the decay brought it to 0
MatchedOrDecayed(s) ==
    \/ \E j \in Successors(s) : persistentSignals'[j].persistence >= s.persistence
    \/ /\ AfterMiss(s) > 0
       /\ Successors(s) # {}
       /\ \A j \in Successors(s) : persistentSignals'[j].persistence = AfterMiss(s)
    \/ /\ AfterMiss(s) = 0
       /\ Successors(s) = {}

\* C38: a frame that does not match a track takes 2 from its persistence
\* while the persistence is above PERSISTENCE_THRESHOLD and 1 otherwise, and
\* the track is destroyed in the frame in which its persistence reaches 0
C38_UnmatchedTracksDecay ==
    [][(tracker = "persistence" /\ lastOp' = "track") =>
          \A k \in DOMAIN persistentSignals : MatchedOrDecayed(persistentSignals[k])]_vars

\* the first silent frame took 2 from a signal at the ceiling of its counter
C38_Witness ==
    /\ tracker = "persistence"
    /\ lastOp = "track"
    /\ quietFrames = 1
    /\ persistenceAtQuiet = PERSISTENCE_THRESHOLD + PERSISTENCE_HEADROOM
    /\ \E k \in DOMAIN persistentSignals :
          persistentSignals[k].persistence = PERSISTENCE_THRESHOLD + PERSISTENCE_HEADROOM - 2

-----------------------------------------------------------------------------
(* Claims about the primary target of the persistence tracker *)

\* the persistent signals whose median index (kept times two) is at or beyond
\* the blind-zone index of the last frame
BeyondBlindZone ==
    {k \in DOMAIN persistentSignals :
        /\ persistentSignals[k].persistence >= PERSISTENCE_THRESHOLD
        /\ persistentSignals[k].medianDistance >= 2 * blindZoneEnd}

\* C39: in every frame the primary value handed to the smoother is the
\* smallest median index of the persistent signals at or beyond the blind-zone
\* index of that frame, and it is 0 only when there is no such signal
C39_PrimaryIsClosestBeyondBlindZone ==
    (tracker = "persistence" /\ lastOp = "track") =>
        primaryValue = IF BeyondBlindZone = {} THEN 0
                       ELSE Min({persistentSignals[k].medianDistance : k \in BeyondBlindZone})

-----------------------------------------------------------------------------
(* Claims about the text of gpspipe *)

\* what the lines written so far parse to
WrittenMsgs ==
    LET written == WrittenLines(gpsOut, <<>>)
    IN  [i \in 1..Len(written) |-> ParseJson(written[i])]

\* C40: every line gpspipe writes is parsed and handled exactly once, however
\* its output is cut into chunks: the callbacks are handed the written lines
\* in order, nothing else, and all of them once the output has arrived
C40_EveryLineHandledOnce ==
    /\ IsPrefix(parsedLines, WrittenMsgs)
    /\ gpsOutPos = Len(gpsOut) => parsedLines = WrittenMsgs

=============================================================================
